---- MODULE Spec2Model ----
(***************************************************************************)
(* The product catalog of openlines-tg (app/scraper.py, app/database.py):  *)
(* the lifecycle coroutines load_from_db, full_scrape and refresh_prices,  *)
(* the PostgreSQL mirror they write, and the synchronous queries that can  *)
(* run at every await point of a lifecycle run.                            *)
(*                                                                         *)
(* One state of the model is one await point of the event loop: an action  *)
(* is the code a coroutine runs between two suspensions.  A behaviour is   *)
(* one life of the process: the start-up load, then one lifecycle call on  *)
(* the catalog that was loaded, with queries at every await point.  Titles *)
(* are Cyrillic in production; they are transliterated here.               *)
(***************************************************************************)
EXTENDS Integers, Sequences, FiniteSets, TLC

VARIABLES
    products,            \* ProductCatalog.products
    search_index,        \* ProductCatalog._search_index
    last_full_scrape,    \* ProductCatalog.last_full_scrape
    last_price_refresh,  \* ProductCatalog.last_price_refresh
    has_db,              \* ProductCatalog._db is not None
    db_products,         \* rows of table products (primary key uid)
    db_meta,             \* the row id = 1 of table scrape_meta
    pc,                  \* where the lifecycle coroutine is suspended
    op,                  \* the lifecycle method that is running
    cat,                 \* index of the current slug in CATEGORY_SLUGS
    pairs,               \* pairs of the current category still to fetch
    all_products,        \* local all_products of full_scrape
    seen_uids,           \* local seen_uids of full_scrape
    by_uid,              \* local by_uid of refresh_prices (uid -> position)
    now,                 \* the clock read by time.time()
    hist,                \* history of the current / last lifecycle run
    obs,                 \* what the last query observed
    html,                \* the page text given to _extract_store_ids
    loop,                \* _scraper_loop: its position and what it has done
    session,             \* Redis hash bot:session:<chat_id> (state, ts)
    redis_chat,          \* Redis list chat:history:<dialog_id>
    pg_chat,             \* rows of chat_messages of the dialog
    request,             \* the webhook handler in progress
    watchdog,            \* _session_watchdog: its position and what it read
    chat                 \* history of the events of the chat

vars == <<products, search_index, last_full_scrape, last_price_refresh, has_db,
          db_products, db_meta, pc, op, cat, pairs, all_products, seen_uids,
          by_uid, now, hist, obs, html, loop, session, redis_chat, pg_chat,
          request, watchdog, chat>>

\* the chat sessions and their conversation history
sessions == <<session, redis_chat, pg_chat, request, watchdog, chat>>

\* what the catalog lifecycle and the queries neither read nor write
others == <<html, sessions>>

----------------------------------------------------------------------------
(* Bounds of the model *)

\* how many slugs of CATEGORY_SLUGS a run iterates over
NumCategories == 2

\* how many products the catalogs hold that the Scorer is run on
MaxCatalog == 2

\* how many identifiers a line of a page holds, and how many lines a page of
\* several lines
MaxTokens == 3
MaxLines == 2

----------------------------------------------------------------------------
(* Values *)

\* Python None
NULL == "NULL"
\* a key that the upstream dict does not have
MISSING == "MISSING"

\* the value of a key that should hold a list: its Python type, and what a
\* loop over it yields (a list yields its items, a str its characters; None is
\* not iterable)
ListValue(items) == [kind |-> "list", items |-> items]
StrValue(items)  == [kind |-> "str", items |-> items]
NullValue        == [kind |-> "null", items |-> <<>>]

\* an item that is not a dict
NotADict == [kind |-> "str"]

CATEGORY_SLUGS ==
    <<"aktsii", "ikra", "krevetki", "grebeshok", "krab", "molluski", "ryba",
      "vyalenaya_i_kopchenaya_productsiya", "polufabrikaty", "bakaleya",
      "podarki", "raznoe">>

Slugs == 1 .. NumCategories

\* retries: int = 3 of both fetchers
Retries == 3

\* backoff: float = 3.0 of both fetchers, in seconds
Backoff == 3

\* raw upstream records (dicts of the "products" array)
RawA == [uid |-> "u1", title |-> "Kraby", sku |-> "s1", price |-> "100",
         priceold |-> "", quantity |-> "5"]
\* the uid of RawA with every other field different
RawB == [uid |-> "u1", title |-> "losos", sku |-> "s2", price |-> "200",
         priceold |-> "100", quantity |-> "0"]
\* a record without sku, price, priceold and quantity keys, whose title is
\* the name of a category
\* it has editions and characteristics: dicts with some of the keys, with a
\* key that is not kept, and items that are not dicts
RawC == [uid |-> "u2", title |-> "Ikra", sku |-> MISSING, price |-> MISSING,
         priceold |-> MISSING, quantity |-> MISSING,
         editions |->
             ListValue(<< NotADict,
                          [kind |-> "dict", uid |-> "e1", price |-> "90", img |-> "x"],
                          NotADict,
                          [kind |-> "dict", uid |-> "e2", sku |-> "s9", text |-> "",
                           price |-> "95", priceold |-> "", quantity |-> NULL] >>),
         characteristics |->
             ListValue(<< [kind |-> "dict", title |-> "ves", value |-> "1kg"],
                          NotADict >>)]
\* a record without a uid key
RawD == [uid |-> MISSING, title |-> "Kraby", sku |-> "s1", price |-> "100",
         priceold |-> "", quantity |-> "5"]
\* a record whose title is null
RawE == [uid |-> "u2", title |-> NULL, sku |-> "s2", price |-> "200",
         priceold |-> "", quantity |-> "0"]

\* a record whose title is written with yo (osyotr, the sturgeon)
\* its editions are a str, not a list
RawF == [uid |-> "u3", title |-> "Osyotr", sku |-> "s3", price |-> "300",
         priceold |-> "", quantity |-> "5",
         editions |-> StrValue(<<NotADict, NotADict>>)]

\* a record whose editions are null
RawG == [uid |-> "u4", title |-> "Kraby", sku |-> "s1", price |-> "100",
         priceold |-> "", quantity |-> "5", editions |-> NullValue]

\* bodies of a 200 answer of the product-list endpoint
ProductLists ==
    { <<>>, <<RawA>>, <<RawC>>, <<RawD>>, <<RawE>>, <<RawG>>, <<RawA, RawB>> }

Bodies ==
    { [kind |-> "products", products |-> l] : l \in ProductLists }
    \cup { [kind |-> k, products |-> <<>>] :
             k \in {"not_json", "not_object", "no_products_key", "products_not_list"} }

\* the answers of the upstream to the (at most Retries) requests of one fetch
HttpScripts ==
    { <<"200", "200", "200">>, <<"403", "200", "200">>, <<"500", "200", "200">>,
      <<"timeout", "timeout", "200">>, <<"403", "403", "403">>,
      <<"500", "500", "500">>, <<"timeout", "500", "403">> }

\* a page is its lines, a line the identifiers embedded in it, in order,
\* each followed by a comma: recid:'...', storepart:'...' or
\* storepartuid:'...'
Recid(value) == [name |-> "recid", value |-> value]
Storepart(value) == [name |-> "storepart", value |-> value]
StorepartUid(value) == [name |-> "storepartuid", value |-> value]

\* the values that match \d{5,} and those that match [a-f0-9-]{8,}
Digits == {"10001", "10002", "70001", "70000002"}
Hex == {"70000002", "ab12cd34"}

\* category pages of the upstream: none, one, two pairs, one pair twice
Pages ==
    { <<>>,
      << <<Recid("10001"), Storepart("70000002")>> >>,
      << <<Recid("10001"), Storepart("70000002")>>,
         <<Recid("10002"), Storepart("70000002")>> >>,
      << <<Recid("10001"), Storepart("70000002")>>,
         <<Recid("10001"), Storepart("70000002")>> >> }

----------------------------------------------------------------------------
(* Discovery and Fetcher *)

RECURSIVE FirstOk(_, _)
\* the attempt that gets the first 200, or 0: a 403 and a timeout wait and
\* go on, any other status logs and falls through to the next attempt
FirstOk(script, attempt) ==
    IF attempt > Retries THEN 0
    ELSE IF script[attempt] = "200" THEN attempt
    ELSE FirstOk(script, attempt + 1)

\* a retry loop that runs over range(1, retries + 2)
RequestsOneMore(script) ==
    IF FirstOk(script, 1) > 0 THEN FirstOk(script, 1) ELSE Retries + 1

\* the requests one call of a fetcher sends: one per attempt, up to the first
\* 200 or to the end of range(1, retries + 1)
Requests(script) ==
    IF FirstOk(script, 1) > 0 THEN FirstOk(script, 1) ELSE Retries

\* a fetcher that sleeps backoff after every failed attempt
WaitAfterConstant(script, attempt) ==
    IF attempt <= Requests(script) /\ script[attempt] \in {"403", "timeout"}
    THEN Backoff ELSE 0

\* the sleep of a fetcher after the answer to its attempt: backoff * attempt
\* after a 403 and after a timeout or network error, none after another
\* status (and no attempt, no sleep)
WaitAfter(script, attempt) ==
    IF attempt <= Requests(script) /\ script[attempt] \in {"403", "timeout"}
    THEN Backoff * attempt ELSE 0

\* _fetch_category_page: the page text, or None
FetchCategoryPage(script, page) ==
    IF FirstOk(script, 1) > 0 THEN [html |-> TRUE, page |-> page]
    ELSE [html |-> FALSE, page |-> <<>>]

RECURSIVE Dedupe(_, _)
Dedupe(s, acc) ==
    IF s = <<>> THEN acc
    ELSE IF \E i \in 1 .. Len(acc) : acc[i] = Head(s)
         THEN Dedupe(Tail(s), acc)
         ELSE Dedupe(Tail(s), Append(acc, Head(s)))

\* the token is an identifier that the combined patterns capture
IsA(token, name) == token.name = name /\ token.value \in Digits

\* the positions of a line from which on the first identifier is followed,
\* later in the line, by the second
Starts(line, from, first, second) ==
    { i \in from .. Len(line) :
        /\ IsA(line[i], first)
        /\ \E j \in i + 1 .. Len(line) : IsA(line[j], second) }

\* re.findall of first ... .*? ... second in one line: matches are taken
\* from left to right and do not overlap; .*? stops at the nearest second
RECURSIVE FindAll(_, _, _, _)
FindAll(line, from, first, second) ==
    IF Starts(line, from, first, second) = {} THEN <<>>
    ELSE LET i == CHOOSE k \in Starts(line, from, first, second) :
                      \A m \in Starts(line, from, first, second) : k <= m
             j == CHOOSE k \in i + 1 .. Len(line) :
                      /\ IsA(line[k], second)
                      /\ \A m \in i + 1 .. k - 1 : ~IsA(line[m], second)
         IN  << <<line[i].value, line[j].value>> >>
                 \o FindAll(line, j + 1, first, second)

\* re.findall over the page: . does not match a newline
RECURSIVE Combined(_, _, _)
Combined(page, first, second) ==
    IF page = <<>> THEN <<>>
    ELSE FindAll(Head(page), 1, first, second) \o Combined(Tail(page), first, second)

\* the lines of a page, one after the other
RECURSIVE Flat(_)
Flat(page) == IF page = <<>> THEN <<>> ELSE Head(page) \o Flat(Tail(page))

\* the fallback patterns: storepart\w* with a value of [a-f0-9-]{8,}, and
\* recid with a value of \d{5,}
Storeparts(page) ==
    LET found == SelectSeq(Flat(page), LAMBDA t :
                     t.name \in {"storepart", "storepartuid"} /\ t.value \in Hex)
    IN  [i \in 1 .. Len(found) |-> found[i].value]
Recids(page) ==
    LET found == SelectSeq(Flat(page), LAMBDA t :
                     t.name = "recid" /\ t.value \in Digits)
    IN  [i \in 1 .. Len(found) |-> found[i].value]

\* min
Min(a, b) == IF a < b THEN a ELSE b

\* zip
Zip(a, b) == [i \in 1 .. Min(Len(a), Len(b)) |-> <<a[i], b[i]>>]

\* the keys (sp, rid) of the matches of the two combined patterns
RecordFirst(page) ==
    LET combined == Combined(page, "recid", "storepart")
    IN  [i \in 1 .. Len(combined) |-> <<combined[i][2], combined[i][1]>>]
PartitionFirst(page) == Combined(page, "storepart", "recid")

\* an _extract_store_ids that consults the fallback on every page
ExtractStoreIdsAlwaysFallback(page) ==
    Dedupe(Zip(Storeparts(page), Recids(page)),
           Dedupe(PartitionFirst(page), Dedupe(RecordFirst(page), <<>>)))

\* _extract_store_ids
ExtractStoreIds(page) ==
    LET found == Dedupe(PartitionFirst(page), Dedupe(RecordFirst(page), <<>>))
    IN  IF found # <<>> THEN found
        ELSE Dedupe(Zip(Storeparts(page), Recids(page)), found)

\* _fetch_products: r.json() and data.get() run outside any handler that
\* catches their exceptions
FetchProducts(script, body) ==
    IF FirstOk(script, 1) = 0 THEN [raised |-> FALSE, products |-> <<>>]
    ELSE IF body.kind \in {"not_json", "not_object"}
         THEN [raised |-> TRUE, products |-> <<>>]
    ELSE IF body.kind = "products"
         THEN [raised |-> FALSE, products |-> body.products]
    ELSE [raised |-> FALSE, products |-> <<>>]

----------------------------------------------------------------------------
(* Normalizer *)

\* dict.get(key, default)
Get(raw, key, default) == IF raw[key] = MISSING THEN default ELSE raw[key]

\* Python truthiness of a field value
Truthy(v) == v \notin {"", NULL}

\* dict.get(key, default) of a dict that has exactly the keys of its domain
GetKey(d, key, default) == IF key \in DOMAIN d THEN d[key] ELSE default

\* the dict an edition is reduced to
Edition(ed) ==
    [kind     |-> "dict",
     uid      |-> GetKey(ed, "uid", ""),
     price    |-> GetKey(ed, "price", ""),
     priceold |-> GetKey(ed, "priceold", ""),
     sku      |-> GetKey(ed, "sku", ""),
     text     |-> GetKey(ed, "text", ""),
     quantity |-> GetKey(ed, "quantity", "")]

\* the dict a characteristic is reduced to
Characteristic(ch) ==
    [kind  |-> "dict",
     title |-> GetKey(ch, "title", ""),
     value |-> GetKey(ch, "value", "")]

IsDict(item) == item.kind = "dict"

\* for ed in raw.get("editions", []): if isinstance(ed, dict): append
Editions(raw) ==
    LET dicts == SelectSeq(GetKey(raw, "editions", ListValue(<<>>)).items, IsDict)
    IN  ListValue([k \in 1 .. Len(dicts) |-> Edition(dicts[k])])

\* for ch in raw.get("characteristics", []): if isinstance(ch, dict): append
Characteristics(raw) ==
    LET dicts == SelectSeq(GetKey(raw, "characteristics", ListValue(<<>>)).items, IsDict)
    IN  ListValue([k \in 1 .. Len(dicts) |-> Characteristic(dicts[k])])

\* the for loops of _normalise_product raise TypeError on a value that is
\* not iterable
NormaliseRaises(raw) ==
    \E key \in {"editions", "characteristics"} :
        GetKey(raw, key, ListValue(<<>>)).kind = "null"

\* a normaliser that reads the price from priceold and priceold from price
NormaliseProductSwapped(raw, slug) ==
    [uid      |-> Get(raw, "uid", ""),
     title    |-> Get(raw, "title", ""),
     sku      |-> Get(raw, "sku", ""),
     price    |-> Get(raw, "priceold", ""),
     priceold |-> Get(raw, "price", ""),
     quantity |-> Get(raw, "quantity", ""),
     editions |-> Editions(raw),
     characteristics |-> Characteristics(raw),
     category |-> slug]

\* _normalise_product, where it does not raise
NormaliseProduct(raw, slug) ==
    [uid      |-> Get(raw, "uid", ""),
     title    |-> Get(raw, "title", ""),
     sku      |-> Get(raw, "sku", ""),
     price    |-> Get(raw, "price", ""),
     priceold |-> Get(raw, "priceold", ""),
     quantity |-> Get(raw, "quantity", ""),
     editions |-> Editions(raw),
     characteristics |-> Characteristics(raw),
     category |-> slug]

----------------------------------------------------------------------------
(* Search index *)

\* a _normalize that lowers the case and keeps yo
NormalizeKeepsYo(w) ==
    CASE w = "Kraby"   -> "kraby"
      [] w = "KRABY"   -> "kraby"
      [] w = "Kraby,"  -> "kraby,"
      [] w = "'Kraby'" -> "'kraby'"
      [] w = "Ikra"    -> "ikra"
      [] w = "Osyotr"  -> "osyotr"
      [] w = "OSETR"   -> "osetr"
      [] OTHER         -> w

\* _normalize: str.lower() and the replacement of yo by ye (the words of the
\* model are transliterated: yo is written yo, ye is written e); punctuation
\* stays
Normalize(w) ==
    CASE w = "Kraby"   -> "kraby"
      [] w = "KRABY"   -> "kraby"
      [] w = "Osyotr"  -> "osetr"
      [] w = "osyotr"  -> "osetr"
      [] w = "OSETR"   -> "osetr"
      [] w = "Kraby,"  -> "kraby,"
      [] w = "'Kraby'" -> "'kraby'"
      [] w = "Ikra"    -> "ikra"
      [] OTHER         -> w

\* _RE_PUNCT.sub(" ", ...) and split() of one word: every character that is
\* neither a word character nor a hyphen goes
Clean(w) ==
    CASE w = "kraby,"  -> "kraby"
      [] w = "'kraby'" -> "kraby"
      [] OTHER         -> w

\* the Snowball stem of a lowercase word: an ending is cut only at the very
\* end of the word, so a word that ends in punctuation is left as it is
StemWord(w) == IF w = "kraby" THEN "krab" ELSE w

\* _stem_text(...).split() of a one-word field
StemText(t) == IF t = "" THEN <<>> ELSE <<StemWord(Clean(Normalize(t)))>>

\* the fields _build_search_index reads must be str
Indexable(p) ==
    /\ p.title # NULL
    /\ p.sku # NULL
    /\ \A k \in 1 .. Len(p.characteristics.items) :
          /\ p.characteristics.items[k].title # NULL
          /\ p.characteristics.items[k].value # NULL

\* the stems of c.get("title", "") + " " + c.get("value", "") of the
\* characteristics from position k on
RECURSIVE CharacteristicStems(_, _)
CharacteristicStems(items, k) ==
    IF k > Len(items) THEN <<>>
    ELSE StemText(items[k].title) \o StemText(items[k].value)
         \o CharacteristicStems(items, k + 1)

IndexEntry(p) ==
    [title |-> StemText(p.title),
     other |-> StemText(p.category) \o StemText(p.sku)
               \o CharacteristicStems(p.characteristics.items, 1)]

\* a rebuild that stops one product short of the end of the list
BuildSearchIndexOffByOne(prods) ==
    [i \in 1 .. Len(prods) - 1 |-> IndexEntry(prods[i])]

\* the list _build_search_index assigns to _search_index
BuildSearchIndex(prods) == [i \in 1 .. Len(prods) |-> IndexEntry(prods[i])]

\* _build_search_index raises on a field that is not a str
BuildRaises(prods) == \E i \in 1 .. Len(prods) : ~Indexable(prods[i])

----------------------------------------------------------------------------
(* Catalog lifecycle: the code between two awaits *)

\* the loop over raw_products without the test of seen_uids
RECURSIVE ScrapeRecordsNoDedupe(_, _, _, _)
ScrapeRecordsNoDedupe(all, seen, raws, slug) ==
    IF raws = <<>> THEN [all |-> all, seen |-> seen, raised |-> FALSE]
    ELSE IF NormaliseRaises(Head(raws))
         THEN [all |-> all, seen |-> seen, raised |-> TRUE]
    ELSE ScrapeRecordsNoDedupe(Append(all, NormaliseProduct(Head(raws), slug)),
                               seen, Tail(raws), slug)

RECURSIVE ScrapeRecords(_, _, _, _)
\* full_scrape, the loop over raw_products: first occurrence of a uid wins;
\* an exception of _normalise_product ends the loop
ScrapeRecords(all, seen, raws, slug) ==
    IF raws = <<>> THEN [all |-> all, seen |-> seen, raised |-> FALSE]
    ELSE LET rp  == Head(raws)
             uid == Get(rp, "uid", "")
         IN  IF Truthy(uid) /\ uid \in seen
             THEN ScrapeRecords(all, seen, Tail(raws), slug)
             ELSE IF NormaliseRaises(rp)
             THEN [all |-> all, seen |-> seen, raised |-> TRUE]
             ELSE ScrapeRecords(Append(all, NormaliseProduct(rp, slug)),
                                IF Truthy(uid) THEN seen \cup {uid} ELSE seen,
                                Tail(raws), slug)

\* by_uid = {p["uid"]: p for p in self.products if p.get("uid")}: the dict
\* holds references to the product dicts, modelled as positions in the list
BuildByUid(prods) ==
    LET keys == { prods[i].uid : i \in { j \in 1 .. Len(prods) : Truthy(prods[j].uid) } }
    IN  [u \in keys |->
            CHOOSE i \in 1 .. Len(prods) :
                /\ prods[i].uid = u
                /\ \A j \in 1 .. Len(prods) : prods[j].uid = u => j <= i]

\* a refresh that takes the title of the raw record as well
UpdatePricesAndTitle(p, rp) ==
    [p EXCEPT !.title    = Get(rp, "title", p.title),
              !.price    = Get(rp, "price", p.price),
              !.priceold = Get(rp, "priceold", p.priceold),
              !.quantity = Get(rp, "quantity", p.quantity)]

\* the three assignments of refresh_prices to a known product
UpdatePrices(p, rp) ==
    [p EXCEPT !.price    = Get(rp, "price", p.price),
              !.priceold = Get(rp, "priceold", p.priceold),
              !.quantity = Get(rp, "quantity", p.quantity)]

RECURSIVE RefreshRecords(_, _, _, _)
\* refresh_prices, the loop over raw_products: known uids are patched in
\* place, unknown ones are normalised and appended; an exception of
\* _normalise_product ends the loop with the list as patched so far
RefreshRecords(prods, byuid, raws, slug) ==
    IF raws = <<>> THEN [products |-> prods, by_uid |-> byuid, raised |-> FALSE]
    ELSE LET rp  == Head(raws)
             uid == Get(rp, "uid", "")
         IN  IF uid \in DOMAIN byuid
             THEN RefreshRecords(
                      [prods EXCEPT ![byuid[uid]] = UpdatePrices(prods[byuid[uid]], rp)],
                      byuid, Tail(raws), slug)
             ELSE IF NormaliseRaises(rp)
             THEN [products |-> prods, by_uid |-> byuid, raised |-> TRUE]
             ELSE RefreshRecords(
                      Append(prods, NormaliseProduct(rp, slug)),
                      [u \in DOMAIN byuid \cup {uid} |->
                          IF u = uid THEN Len(prods) + 1 ELSE byuid[u]],
                      Tail(raws), slug)

----------------------------------------------------------------------------
(* Persistence (app/database.py) *)

\* _s(): str(v), None becomes ""
Str(v) == IF v = NULL THEN "" ELSE v

\* _product_dict_to_row
ProductDictToRow(p) ==
    [uid      |-> Str(p.uid),
     title    |-> Str(p.title),
     sku      |-> Str(p.sku),
     price    |-> Str(p.price),
     priceold |-> Str(p.priceold),
     quantity |-> Str(p.quantity),
     editions |-> p.editions,
     characteristics |-> p.characteristics,
     category |-> Str(p.category)]

Rows(prods) == [i \in 1 .. Len(prods) |-> ProductDictToRow(prods[i])]

\* replace_all_products: nothing at all for an empty list; otherwise DELETE
\* and INSERT in one transaction, rolled back when two rows share the key
ReplaceAllProducts(table, prods) ==
    IF prods = <<>> THEN [raised |-> FALSE, table |-> table]
    ELSE LET rows == Rows(prods)
         IN  IF \E i, j \in 1 .. Len(rows) : i # j /\ rows[i].uid = rows[j].uid
             THEN [raised |-> TRUE, table |-> table]
             ELSE [raised |-> FALSE, table |-> { rows[i] : i \in 1 .. Len(rows) }]

RECURSIVE UpsertRows(_, _)
UpsertRows(table, rows) ==
    IF rows = <<>> THEN table
    ELSE UpsertRows({ r \in table : r.uid # Head(rows).uid } \cup {Head(rows)},
                    Tail(rows))

\* upsert_products: INSERT ... ON CONFLICT (uid) DO UPDATE, row by row
UpsertProducts(table, prods) ==
    IF prods = <<>> THEN table ELSE UpsertRows(table, Rows(prods))

\* rank of a category for ORDER BY category: the slugs the model iterates
\* over stand in alphabetical order in CATEGORY_SLUGS
CategoryRank(c) ==
    IF \E i \in DOMAIN CATEGORY_SLUGS : CATEGORY_SLUGS[i] = c
    THEN CHOOSE i \in DOMAIN CATEGORY_SLUGS : CATEGORY_SLUGS[i] = c
    ELSE 0

\* Product.to_dict: every column under the key of its name, a JSON column
\* that is not a list as the empty list
ToDict(row) ==
    [uid |-> row.uid, title |-> row.title, sku |-> row.sku, price |-> row.price,
     priceold |-> row.priceold, quantity |-> row.quantity,
     editions |-> IF row.editions.kind = "list" THEN row.editions ELSE ListValue(<<>>),
     characteristics |-> IF row.characteristics.kind = "list" THEN row.characteristics
                         ELSE ListValue(<<>>),
     category |-> row.category]

\* select(Product).order_by(category, title): every row, ordered by
\* category; the order of the titles within a category is the collation's
\* and is left open
SelectProducts(table) ==
    { s \in [1 .. Cardinality(table) -> table] :
        /\ \A i, j \in DOMAIN s : i # j => s[i] # s[j]
        /\ \A i, j \in DOMAIN s :
              i < j => CategoryRank(s[i].category) <= CategoryRank(s[j].category) }

\* load_all_products
LoadAllProducts(table) ==
    { [i \in DOMAIN s |-> ToDict(s[i])] : s \in SelectProducts(table) }

\* a row of the table scrape_meta; its CHECK constraint admits id = 1 only
ScrapeMetaRow(full, price) ==
    [id |-> 1, last_full_scrape |-> full, last_price_refresh |-> price]

\* a connect that creates the tables and seeds nothing
ConnectNoSeed(table) == table

\* Database.connect: INSERT INTO scrape_meta (id) VALUES (1) ON CONFLICT DO
\* NOTHING, the other columns taking their server default 0
Connect(table) ==
    IF \E r \in table : r.id = 1 THEN table
    ELSE table \cup {ScrapeMetaRow(0, 0)}

\* get_scrape_meta: the row with id = 1, or zeros when there is none
GetScrapeMeta(table) ==
    IF \E r \in table : r.id = 1
    THEN LET meta == CHOOSE r \in table : r.id = 1
         IN  [last_full_scrape   |-> meta.last_full_scrape,
              last_price_refresh |-> meta.last_price_refresh]
    ELSE [last_full_scrape |-> 0, last_price_refresh |-> 0]

\* a set_scrape_meta that writes the refresh time to both columns
SetScrapeMetaBoth(table, full, price) ==
    { IF r.id = 1
      THEN [r EXCEPT !.last_full_scrape = IF full = <<>> THEN price[1] ELSE full[1],
                     !.last_price_refresh = IF price = <<>> THEN @ ELSE price[1]]
      ELSE r : r \in table }

\* set_scrape_meta: an argument is <<value>>, or <<>> for None, which
\* leaves its column alone; UPDATE ... WHERE id = 1
SetScrapeMeta(table, full, price) ==
    IF full = <<>> /\ price = <<>> THEN table
    ELSE { IF r.id = 1
           THEN [r EXCEPT !.last_full_scrape = IF full = <<>> THEN @ ELSE full[1],
                          !.last_price_refresh = IF price = <<>> THEN @ ELSE price[1]]
           ELSE r : r \in table }

----------------------------------------------------------------------------
(* State *)

NoRun ==
    [called      |-> "none",     \* the lifecycle method the caller invoked
     ran         |-> "none",     \* the method body that ran: full or refresh
     outcome     |-> "none",     \* running, returned, raised
     raised_in   |-> "none",     \* the call that raised
     before      |-> <<>>,       \* products when the method was called
     before_index |-> <<>>,      \* _search_index when the method was called
     before_full |-> 0,          \* last_full_scrape when it was called
     before_price |-> 0,         \* last_price_refresh when it was called
     before_meta |-> {ScrapeMetaRow(0, 0)},
     first_seen  |-> <<>>,       \* uid -> its first raw record of the run, normalised
     duplicate   |-> FALSE,      \* a uid came a second time in the run
     extra_requests |-> 0,       \* requests beyond Retries, summed over the fetches
     exhausted   |-> FALSE,      \* a fetch gave up after all its attempts
     visited     |-> {},         \* categories whose page was requested
     unfetched   |-> 0,          \* discovered pairs that were never requested
     bad_body    |-> "none",     \* the 200 body on which the fetcher raised
     observed    |-> <<>>,       \* <<list>> a query saw during the run, if changed
     writes      |-> 0,          \* calls of replace_all_products / upsert_products
     save        |-> "none",     \* how the save ended
     done_at     |-> 0,          \* the time the run read on completion
     result      |-> -1,         \* the number full_scrape returned (the count
                                 \* that refresh_prices returns is not followed)
     loaded      |-> FALSE]      \* the value load_from_db returned

\* a query is synchronous: it reads the catalog of the state it runs in and
\* returns; obs names the query that has just returned
NoObs == "none"

\* no event of the chat has been received: no session hash, no history, no
\* handler in progress, the watchdog between two scans
NoSession == [state |-> "none", ts |-> 0]
NoRequest == [pc |-> "idle", read |-> "none"]
NoEvents ==
    [exchanges |-> 0,            \* ONIMBOTMESSAGEADD events answered by the AI
     recorded  |-> {},           \* messages appended before the last join
     prev      |-> "no_join",    \* the session state the last join found
     history   |-> <<>>,         \* <<result>> of the first read after it
     marked    |-> 0,            \* the time of the last mark as transferred
     closing   |-> "none"]       \* who closed the session last
NoChat ==
    /\ session = NoSession
    /\ redis_chat = <<>>
    /\ pg_chat = <<>>
    /\ request = NoRequest
    /\ watchdog = [pc |-> "sleeping", seen |-> NoSession]
    /\ chat = NoEvents

\* _scraper_loop before its first step: where it is, how many iterations of
\* while True it has begun, what the last of them read (the clock and the
\* two timestamps) and which runs it started, and how many exceptions the
\* loop has logged
NotStarted ==
    [pc |-> "startup", iteration |-> 0,
     read |-> [now |-> 0, last_full_scrape |-> 0, last_price_refresh |-> 0],
     started |-> <<>>, errors |-> 0]

\* what an earlier life of the process left in the database: nothing, or
\* the catalog of a full scrape at time 1 that was refreshed at time 2;
\* _startup has connected to it
InitialDatabases ==
    { [products |-> {},
       meta |-> Connect({})],
      [products |-> { ProductDictToRow(NormaliseProduct(RawA, CATEGORY_SLUGS[1])),
                      ProductDictToRow(NormaliseProduct(RawD, CATEGORY_SLUGS[2])) },
       meta |-> Connect({ScrapeMetaRow(1, 2)})] }

Init ==
    /\ products = <<>>
    /\ search_index = <<>>
    /\ last_full_scrape = 0
    /\ last_price_refresh = 0
    /\ has_db \in BOOLEAN
    /\ \E d \in InitialDatabases :
         /\ has_db \/ d.products = {}
         /\ db_products = d.products
         /\ db_meta = d.meta
    /\ pc = "boot"
    /\ op = "none"
    /\ cat = 0
    /\ pairs = <<>>
    /\ all_products = <<>>
    /\ seen_uids = {}
    /\ by_uid = <<>>
    /\ now = 3
    /\ hist = NoRun
    /\ obs = NoObs
    /\ html = <<>>
    /\ loop = NotStarted
    /\ NoChat

Running == pc \in {"fetch_page", "fetch_products", "install", "saving"}

memory == <<products, search_index, last_full_scrape, last_price_refresh>>
database == <<db_products, db_meta>>
locals == <<cat, pairs, all_products, seen_uids, by_uid>>

----------------------------------------------------------------------------
(* load_from_db, awaited by _startup before any other task exists *)

LoadFromDb ==
    /\ pc = "boot"
    /\ pc' = "idle"
    /\ obs' = NoObs
    /\ UNCHANGED <<has_db, others, loop, database, op, locals, now>>
    /\ IF ~has_db
       THEN /\ UNCHANGED memory
            /\ hist' = [NoRun EXCEPT !.called = "load_from_db", !.outcome = "returned"]
       ELSE \E how \in {"ok", "load_raises", "meta_raises"} :
            \E rows \in LoadAllProducts(db_products) :
              LET ok   == how = "ok"
                  prods == IF how = "load_raises" THEN products ELSE rows
                  built == ok /\ prods # <<>> /\ ~BuildRaises(prods)
              IN  /\ products' = prods
                  /\ last_full_scrape' = IF ok THEN GetScrapeMeta(db_meta).last_full_scrape
                                         ELSE last_full_scrape
                  /\ last_price_refresh' = IF ok THEN GetScrapeMeta(db_meta).last_price_refresh
                                           ELSE last_price_refresh
                  /\ search_index' = IF built THEN BuildSearchIndex(prods)
                                     ELSE search_index
                  /\ hist' = [NoRun EXCEPT !.called = "load_from_db",
                                           !.outcome = "returned",
                                           !.raised_in = IF ok THEN "none" ELSE how,
                                           !.loaded = built]

----------------------------------------------------------------------------
(* full_scrape and refresh_prices *)

NewRun(name, body) ==
    [NoRun EXCEPT !.called = name, !.ran = body, !.outcome = "running",
                  !.before = products, !.before_index = search_index,
                  !.before_full = last_full_scrape,
                  !.before_price = last_price_refresh, !.before_meta = db_meta]

\* a full_scrape that empties self.products when it starts
EnterFullScrapeClearing(name) ==
    /\ op' = "full"
    /\ products' = <<>>
    /\ all_products' = <<>>
    /\ seen_uids' = {}
    /\ by_uid' = <<>>
    /\ cat' = 1
    /\ pairs' = <<>>
    /\ pc' = "fetch_page"
    /\ hist' = NewRun(name, "full")
    /\ obs' = NoObs
    /\ UNCHANGED <<search_index, last_full_scrape, last_price_refresh, has_db,
                   others, database, now>>

\* the entry of full_scrape up to its first await
EnterFullScrape(name) ==
    /\ op' = "full"
    /\ all_products' = <<>>
    /\ seen_uids' = {}
    /\ by_uid' = <<>>
    /\ cat' = 1
    /\ pairs' = <<>>
    /\ pc' = "fetch_page"
    /\ hist' = NewRun(name, "full")
    /\ obs' = NoObs
    /\ UNCHANGED <<memory, has_db, others, database, now>>

StartFullScrape ==
    /\ pc = "idle"
    /\ hist.called \in {"none", "load_from_db"}
    /\ EnterFullScrape("full_scrape")
    /\ UNCHANGED loop

\* a refresh_prices that runs its own loop on an empty catalog too
StartRefreshPricesNoDegrade ==
    /\ pc = "idle"
    /\ hist.called \in {"none", "load_from_db"}
    /\ op' = "refresh"
    /\ by_uid' = BuildByUid(products)
    /\ all_products' = <<>>
    /\ seen_uids' = {}
    /\ cat' = 1
    /\ pairs' = <<>>
    /\ pc' = "fetch_page"
    /\ hist' = NewRun("refresh_prices", "refresh")
    /\ obs' = NoObs
    /\ UNCHANGED <<memory, has_db, others, loop, database, now>>

\* the entry of refresh_prices up to its first await: an empty catalog is
\* scraped in full
EnterRefreshPrices ==
    IF products = <<>>
    THEN EnterFullScrape("refresh_prices")
    ELSE /\ op' = "refresh"
         /\ by_uid' = BuildByUid(products)
         /\ all_products' = <<>>
         /\ seen_uids' = {}
         /\ cat' = 1
         /\ pairs' = <<>>
         /\ pc' = "fetch_page"
         /\ hist' = NewRun("refresh_prices", "refresh")
         /\ obs' = NoObs
         /\ UNCHANGED <<memory, has_db, others, database, now>>

StartRefreshPrices ==
    /\ pc = "idle"
    /\ hist.called \in {"none", "load_from_db"}
    /\ EnterRefreshPrices
    /\ UNCHANGED loop

\* the end of the loop body of a category: the next slug, or the code that
\* follows the loop
NextCategory ==
    /\ pairs' = <<>>
    /\ IF cat < NumCategories
       THEN cat' = cat + 1 /\ pc' = "fetch_page"
       ELSE cat' = cat /\ pc' = "install"

\* a skip that leaves the loop over the categories
AfterSkipBreak ==
    /\ pairs' = <<>>
    /\ cat' = cat
    /\ pc' = "install"

\* if not html / if not pairs: sleep and continue with the next slug (in
\* refresh_prices the loop over no pairs falls through to the same sleep)
AfterSkip == NextCategory

\* html = await _fetch_category_page(...); pairs = _extract_store_ids(html)
\* history: one call of a fetcher has answered the script
Fetched(h, script) ==
    [h EXCEPT !.extra_requests = IF Requests(script) > Retries
                                 THEN @ + Requests(script) - Retries ELSE @,
              !.exhausted = @ \/ FirstOk(script, 1) = 0]

FetchPage ==
    /\ pc = "fetch_page"
    /\ \E script \in HttpScripts, page \in Pages :
         LET r  == FetchCategoryPage(script, page)
             ps == ExtractStoreIds(r.page)
         IN  /\ IF r.html /\ ps # <<>>
                THEN /\ pairs' = ps
                     /\ cat' = cat
                     /\ pc' = "fetch_products"
                ELSE AfterSkip
             /\ hist' = [Fetched(hist, script) EXCEPT
                    !.visited = @ \cup {cat}]
    /\ obs' = NoObs
    /\ UNCHANGED <<memory, has_db, others, loop, database, op, all_products, seen_uids, by_uid,
                   now>>

\* history: the first raw record of each uid of the run, normalised; the
\* uids in except are left out
RECURSIVE NoteFirst(_, _, _, _)
NoteFirst(first, raws, slug, except) ==
    IF raws = <<>> THEN first
    ELSE LET uid == Get(Head(raws), "uid", "")
         IN  IF uid \in except \/ uid \in DOMAIN first
             THEN NoteFirst(first, Tail(raws), slug, except)
             ELSE NoteFirst([u \in DOMAIN first \cup {uid} |->
                                IF u = uid THEN NormaliseProduct(Head(raws), slug)
                                ELSE first[u]],
                            Tail(raws), slug, except)

\* history: the uids a full scrape does not deduplicate (a record without a
\* uid has none), and the uids a refresh already knows
Uids(prods) == { prods[i].uid : i \in 1 .. Len(prods) }
NotNoted == IF hist.ran = "full" THEN {"", NULL} ELSE Uids(hist.before)

\* history: a raw record brings a uid that the run has met before
Repeats(first, raws) ==
    \/ \E i \in 1 .. Len(raws) : Get(raws[i], "uid", "") \in DOMAIN first
    \/ \E i, j \in 1 .. Len(raws) :
          i # j /\ Truthy(raws[i].uid) /\ raws[i].uid = raws[j].uid

\* for sp_uid, rec_id in pairs: the pairs left after one pair was fetched,
\* whatever it returned
RemainingPairs(ps, raw_products) == Tail(ps)

\* raw_products = await _fetch_products(...), the loop over them, and the
\* sleep that follows
\* what a call of _fetch_products can come to, over the answers of the
\* upstream: its result, the history of its requests, and the body it raised on
PairFetches ==
    { [result   |-> FetchProducts(script, body),
       fetched  |-> Fetched(hist, script),
       bad_body |-> IF FetchProducts(script, body).raised THEN body.kind ELSE "none"] :
        script \in HttpScripts, body \in Bodies }

FetchPair ==
    /\ pc = "fetch_products"
    /\ \E fetch \in PairFetches :
         LET r    == fetch.result
             slug == CATEGORY_SLUGS[cat]
             rest == RemainingPairs(pairs, r.products)
             h    == [fetch.fetched EXCEPT
                        !.unfetched = @ + Len(Tail(pairs)) - Len(rest),
                        !.duplicate = @ \/ Repeats(hist.first_seen, r.products),
                        !.first_seen = NoteFirst(@, r.products, slug, NotNoted)]
             s    == IF op = "full"
                     THEN ScrapeRecords(all_products, seen_uids, r.products, slug)
                     ELSE RefreshRecords(products, by_uid, r.products, slug)
         IN  IF r.raised
             THEN /\ pc' = "idle"
                  /\ op' = "none"
                  /\ hist' = [fetch.fetched EXCEPT
                                          !.outcome = "raised",
                                          !.raised_in = "fetch_products",
                                          !.bad_body = fetch.bad_body]
                  /\ UNCHANGED <<memory, locals>>
             ELSE IF s.raised
             THEN /\ pc' = "idle"
                  /\ op' = "none"
                  /\ hist' = [fetch.fetched EXCEPT
                                          !.outcome = "raised",
                                          !.raised_in = "normalise_product"]
                  /\ products' = IF op = "full" THEN products ELSE s.products
                  /\ UNCHANGED <<search_index, last_full_scrape,
                                 last_price_refresh, locals>>
             ELSE /\ hist' = h
                  /\ op' = op
                  /\ IF rest = <<>>
                     THEN NextCategory
                     ELSE pairs' = rest /\ cat' = cat /\ pc' = "fetch_products"
                  /\ IF op = "full"
                     THEN /\ all_products' = s.all
                          /\ seen_uids' = s.seen
                          /\ UNCHANGED <<memory, by_uid>>
                     ELSE /\ products' = s.products
                          /\ by_uid' = s.by_uid
                          /\ UNCHANGED <<search_index, last_full_scrape,
                                         last_price_refresh, all_products,
                                         seen_uids>>
    /\ obs' = NoObs
    /\ UNCHANGED <<has_db, others, loop, database, now>>

\* the end of both methods: _build_search_index() and return; an exception
\* of _build_search_index leaves the method before _search_index is assigned
Complete(h) ==
    /\ pc' = "idle"
    /\ op' = "none"
    /\ IF BuildRaises(products')
       THEN /\ search_index' = search_index
            /\ hist' = [h EXCEPT !.outcome = "raised",
                                 !.raised_in = "build_search_index"]
       ELSE /\ search_index' = BuildSearchIndex(products')
            /\ hist' = [h EXCEPT !.outcome = "returned",
                                 !.result = IF op = "full" THEN Len(products') ELSE @]

\* an end of the loop that stamps last_full_scrape alone after a full scrape
InstallFullOnly ==
    /\ pc = "install"
    /\ products' = IF op = "full" THEN all_products ELSE products
    /\ last_full_scrape' = IF op = "full" THEN now ELSE last_full_scrape
    /\ last_price_refresh' = IF op = "full" THEN last_price_refresh ELSE now
    /\ now' = now + 1
    /\ IF has_db
       THEN /\ pc' = "saving"
            /\ op' = op
            /\ search_index' = search_index
            /\ hist' = [hist EXCEPT !.done_at = now]
       ELSE Complete([hist EXCEPT !.done_at = now, !.save = "no_db"])
    /\ obs' = NoObs
    /\ UNCHANGED <<has_db, others, loop, database, locals>>

\* the code after the loop over the categories, up to the first database call
\* of _save_to_db_full / _save_to_db_prices; without a database these return
\* at once and the method runs to its end
Install ==
    /\ pc = "install"
    /\ products' = IF op = "full" THEN all_products ELSE products
    /\ last_full_scrape' = IF op = "full" THEN now ELSE last_full_scrape
    /\ last_price_refresh' = now
    /\ now' = now + 1
    /\ IF has_db
       THEN /\ pc' = "saving"
            /\ op' = op
            /\ search_index' = search_index
            /\ hist' = [hist EXCEPT !.done_at = now]
       ELSE Complete([hist EXCEPT !.done_at = now, !.save = "no_db"])
    /\ obs' = NoObs
    /\ UNCHANGED <<has_db, others, loop, database, locals>>

\* the database calls of _save_to_db_full / _save_to_db_prices inside their
\* try block, then the end of the method
Save ==
    /\ pc = "saving"
    /\ obs' = NoObs
    /\ UNCHANGED <<products, last_full_scrape, last_price_refresh, has_db, others, loop,
                   locals, now>>
    /\ \E how \in {"ok", "products_raise", "meta_raise"} :
         LET r == IF op = "full"
                  THEN ReplaceAllProducts(db_products, products)
                  ELSE [raised |-> FALSE,
                        table |-> UpsertProducts(db_products, products)]
             products_failed == r.raised \/ how = "products_raise"
             meta_failed == ~products_failed /\ how = "meta_raise"
         IN  \* a call that returns before it touches the database cannot fail
             /\ how = "products_raise" => products # <<>>
             /\ db_products' = IF products_failed THEN db_products ELSE r.table
             /\ db_meta' = IF products_failed \/ meta_failed THEN db_meta
                           ELSE SetScrapeMeta(db_meta,
                                    IF op = "full" THEN <<last_full_scrape>> ELSE <<>>,
                                    <<last_price_refresh>>)
             /\ Complete([hist EXCEPT
                    !.writes = @ + 1,
                    !.save = IF products_failed THEN "products_raise"
                             ELSE IF meta_failed THEN "meta_raise" ELSE "ok"])

----------------------------------------------------------------------------
(* Queries *)

\* the characters of the words of the model
Chars(w) ==
    CASE w = "kraby"    -> <<"k", "r", "a", "b", "y">>
      [] w = "krab"     -> <<"k", "r", "a", "b">>
      [] w = "losos"    -> <<"l", "o", "s", "o", "s">>
      [] w = "aktsii"   -> <<"a", "k", "t", "s", "i", "i">>
      [] w = "ikra"     -> <<"i", "k", "r", "a">>
      [] w = "krevetki" -> <<"k", "r", "e", "v", "e", "t", "k", "i">>
      [] w = "s1"       -> <<"s", "1">>
      [] w = "s2"       -> <<"s", "2">>
      [] w = "kraby,"   -> <<"k", "r", "a", "b", "y", ",">>
      [] w = "'kraby'"  -> <<"'", "k", "r", "a", "b", "y", "'">>
      [] w = "kr"       -> <<"k", "r">>
      [] w = "krak"     -> <<"k", "r", "a", "k">>
      [] w = "krabov"   -> <<"k", "r", "a", "b", "o", "v">>
      [] w = "losik"    -> <<"l", "o", "s", "i", "k">>
      [] w = "grebeshok" -> <<"g", "r", "e", "b", "e", "s", "h", "o", "k">>
      [] w = "grebeshk" -> <<"g", "r", "e", "b", "e", "s", "h", "k">>
      [] w = "osetr"    -> <<"o", "s", "e", "t", "r">>
      [] w = "osyotr"   -> <<"o", "s", "yo", "t", "r">>
      [] w = "s3"       -> <<"s", "3">>
      [] w = "ves"      -> <<"v", "e", "s">>
      [] w = "1kg"      -> <<"1", "k", "g">>
      [] OTHER          -> <<>>

\* str.startswith
StartsWith(s, prefix) ==
    Len(prefix) <= Len(s) /\ SubSeq(s, 1, Len(prefix)) = prefix

\* the length of the longest common prefix
RECURSIVE Common(_, _)
Common(a, b) ==
    IF a = <<>> \/ b = <<>> \/ Head(a) # Head(b) THEN 0
    ELSE 1 + Common(Tail(a), Tail(b))

\* the test _stem_match makes on one stem word
StemMatchOne(q, sw) ==
    LET a == Chars(q)
        b == Chars(sw)
        minlen == Min(Len(a), Len(b))
    IN  \/ q = sw
        \/ /\ minlen >= 3
           /\ \/ StartsWith(b, a)
              \/ StartsWith(a, b)
              \/ minlen >= 5 /\ Common(a, b) >= minlen - 1

\* a _stem_match without the minimum of three characters
StemMatchNoMinimum(query_stem, stem_words) ==
    \E i \in 1 .. Len(stem_words) :
        LET a == Chars(query_stem)
            b == Chars(stem_words[i])
        IN  \/ a = b
            \/ StartsWith(b, a)
            \/ StartsWith(a, b)
            \/ Min(Len(a), Len(b)) >= 5 /\ Common(a, b) >= Min(Len(a), Len(b)) - 1

\* a _stem_match whose prefix rule asks the stem word to begin with the query
\* stem, and not the other way round
StemMatchOneWay(query_stem, stem_words) ==
    IF Len(Chars(query_stem)) < 3
    THEN \E i \in 1 .. Len(stem_words) : stem_words[i] = query_stem
    ELSE \E i \in 1 .. Len(stem_words) :
             LET a == Chars(query_stem)
                 b == Chars(stem_words[i])
             IN  \/ query_stem = stem_words[i]
                 \/ Min(Len(a), Len(b)) >= 3 /\ StartsWith(b, a)

\* _stem_match
StemMatch(query_stem, stem_words) ==
    IF Len(Chars(query_stem)) < 3
    THEN \E i \in 1 .. Len(stem_words) : stem_words[i] = query_stem
    ELSE \E i \in 1 .. Len(stem_words) : StemMatchOne(query_stem, stem_words[i])

\* a in b for two strings
Contains(b, a) ==
    \E i \in 0 .. Len(b) - Len(a) : SubSeq(b, i + 1, i + Len(a)) = a

\* has_index of search
HasIndex == Len(search_index) = Len(products)

\* a first pass that adds the points of the title and of the other fields
RECURSIVE StemScoreBoth(_, _)
StemScoreBoth(stem_terms, entry) ==
    IF stem_terms = <<>> THEN 0
    ELSE (IF StemMatch(Head(stem_terms), entry.title) THEN 3 ELSE 0)
         + (IF StemMatch(Head(stem_terms), entry.other) THEN 1 ELSE 0)
         + StemScoreBoth(Tail(stem_terms), entry)

\* the first pass of search over the query stems, for one index entry
RECURSIVE StemScore(_, _)
StemScore(stem_terms, entry) ==
    IF stem_terms = <<>> THEN 0
    ELSE (IF StemMatch(Head(stem_terms), entry.title) THEN 3
          ELSE IF StemMatch(Head(stem_terms), entry.other) THEN 1 ELSE 0)
         + StemScore(Tail(stem_terms), entry)

\* the characters of the joined titles and values of the characteristics
\* from position k on
RECURSIVE CharacteristicText(_, _)
CharacteristicText(items, k) ==
    IF k > Len(items) THEN <<>>
    ELSE Chars(Normalize(items[k].title)) \o <<" ">> \o Chars(Normalize(items[k].value))
         \o (IF k < Len(items) THEN <<" ">> ELSE <<>>)
         \o CharacteristicText(items, k + 1)

\* the normalised raw texts of the substring fallback
OtherText(p) ==
    Chars(Normalize(p.category)) \o <<" ">> \o Chars(Normalize(p.sku)) \o <<" ">>
    \o CharacteristicText(p.characteristics.items, 1)

RECURSIVE SubstringScore(_, _)
SubstringScore(norm_terms, p) ==
    IF norm_terms = <<>> THEN 0
    ELSE (IF Contains(Chars(Normalize(p.title)), Chars(Head(norm_terms))) THEN 3
          ELSE IF Contains(OtherText(p), Chars(Head(norm_terms))) THEN 1 ELSE 0)
         + SubstringScore(Tail(norm_terms), p)

\* norm_terms and stem_terms of search; a query is given as the words
\* str.split() finds in it
NormTerms(query) == [k \in DOMAIN query |-> Normalize(query[k])]
StemTerms(norm_terms) == [k \in DOMAIN norm_terms |-> StemWord(norm_terms[k])]

\* the first pass of search on the product at position i
Stemmed(norm_terms, i) ==
    IF HasIndex THEN StemScore(StemTerms(norm_terms), search_index[i]) ELSE 0

\* the score search gives the product at position i
Score(norm_terms, i) ==
    IF Stemmed(norm_terms, i) = 0
    THEN SubstringScore(norm_terms, products[i])
    ELSE Stemmed(norm_terms, i)

\* the substring fallback calls str methods of title and sku
ScoreRaises(norm_terms, i) ==
    Stemmed(norm_terms, i) = 0 /\ ~Indexable(products[i])

Take(s, n) == SubSeq(s, 1, Min(n, Len(s)))

RECURSIVE ByScore(_, _, _)
\* results.sort(key=score, reverse=True) is stable: positions of one score
\* keep their order
ByScore(positions, norm_terms, score) ==
    IF score = 0 THEN <<>>
    ELSE SelectSeq(positions, LAMBDA i : Score(norm_terms, i) = score)
         \o ByScore(positions, norm_terms, score - 1)

\* results after the sort, as positions of the catalog
Ranked(norm_terms) ==
    ByScore([i \in 1 .. Len(products) |-> i], norm_terms, 3 * Len(norm_terms))

\* a search without the test of the blank query: the loop over the products
\* runs with no terms
SearchResultNoBlankTest(query, limit) ==
    LET norm_terms == NormTerms(query)
        ranked     == Ranked(norm_terms)
    IN  IF \E i \in 1 .. Len(products) : ScoreRaises(norm_terms, i)
        THEN [raised |-> TRUE, products |-> <<>>]
        ELSE [raised |-> FALSE,
              products |-> [k \in 1 .. Min(limit, Len(ranked)) |-> products[ranked[k]]]]

\* search
SearchResult(query, limit) ==
    LET norm_terms == NormTerms(query)
        ranked     == Ranked(norm_terms)
    IN  IF query = <<>> THEN [raised |-> FALSE, products |-> <<>>]
        ELSE IF \E i \in 1 .. Len(products) : ScoreRaises(norm_terms, i)
        THEN [raised |-> TRUE, products |-> <<>>]
        ELSE [raised |-> FALSE,
              products |-> [k \in 1 .. Min(limit, Len(ranked)) |-> products[ranked[k]]]]

\* get_by_category
GetByCategoryResult(category, limit) ==
    Take(SelectSeq(products, LAMBDA p : p.category = category), limit)

RECURSIVE Available(_, _, _)
\* get_available: the loop appends before it tests the limit
Available(prods, result, limit) ==
    IF prods = <<>> THEN result
    ELSE IF Head(prods).quantity = "0" THEN Available(Tail(prods), result, limit)
    ELSE IF Len(result) + 1 >= limit THEN Append(result, Head(prods))
    ELSE Available(Tail(prods), Append(result, Head(prods)), limit)

GetAvailableResult(limit) == Available(products, <<>>, limit)

\* queries: no word, a title, a title in other spellings, a sku, a category
\* that is also a title, a word no product has, a word twice, two words
Queries ==
    { <<>>, <<"Kraby">>, <<"Kraby,">>, <<"'Kraby'">>, <<"s1">>, <<"Ikra">>,
      <<"losik">>, <<"Kraby", "Kraby">>, <<"s1", "Ikra">> }
Limits == {0, 1, 10}

\* product i is out of stock
OutOfStock(i) == products[i].quantity = "0"

\* build_catalog_summary: the counts its text is made of (the price range of
\* a category is left out)
BuildCatalogSummaryResult ==
    IF products = <<>> THEN [empty |-> TRUE, total |-> 0, in_stock |-> 0, by_cat |-> <<>>]
    ELSE LET cats == { products[i].category : i \in 1 .. Len(products) }
             of(c) == { i \in 1 .. Len(products) : products[i].category = c }
         IN  [empty    |-> FALSE,
              total    |-> Len(products),
              in_stock |-> Cardinality({ i \in 1 .. Len(products) : ~OutOfStock(i) }),
              by_cat   |-> [c \in cats |->
                               [count    |-> Cardinality(of(c)),
                                in_stock |-> Cardinality({ i \in of(c) : ~OutOfStock(i) })]]]

\* a query that sorts the list it reads in place
ObserveSorting(kind) ==
    /\ obs' = kind
    /\ hist' = hist
    /\ products' = [i \in 1 .. Len(products) |-> products[Len(products) + 1 - i]]
    /\ UNCHANGED <<search_index, last_full_scrape, last_price_refresh, has_db, others, loop,
                   database, pc, op, locals, now>>

\* a query changes nothing it reads
Observe(kind) ==
    /\ obs' = kind
    /\ hist' = [hist EXCEPT !.observed = IF Running /\ products # hist.before
                                         THEN <<products>> ELSE @]
    /\ UNCHANGED <<memory, has_db, others, loop, database, pc, op, locals, now>>

\* search(q, limit=n) returns SearchResult(q, n) of the state it runs in
\* (requests are served once _startup has returned)
Search ==
    /\ pc # "boot"
    /\ Observe("search")

\* get_by_category(c, limit=n) returns GetByCategoryResult(c, n)
GetByCategory ==
    /\ pc # "boot"
    /\ Observe("get_by_category")

\* get_available(limit=n) returns GetAvailableResult(n)
GetAvailable ==
    /\ pc # "boot"
    /\ Observe("get_available")

\* build_catalog_summary() returns the text of BuildCatalogSummaryResult
BuildCatalogSummary ==
    /\ pc # "boot"
    /\ Observe("build_catalog_summary")

----------------------------------------------------------------------------

Next ==
    \/ LoadFromDb
    \/ StartFullScrape
    \/ StartRefreshPrices
    \/ FetchPage
    \/ FetchPair
    \/ Install
    \/ Save
    \/ Search
    \/ GetByCategory
    \/ GetAvailable

Spec == Init /\ [][Next]_vars

\* the event loop resumes a coroutine whose await is over: every request has
\* a timeout (httpx.Timeout(30.0)), every sleep is finite
Resume == FetchPage \/ FetchPair \/ Install \/ Save

\* the lifecycle alone: a query is synchronous and leaves untouched all that
\* a run reads, so it can neither block a run nor change its course
Lifecycle ==
    \/ LoadFromDb
    \/ StartFullScrape
    \/ StartRefreshPrices
    \/ FetchPage
    \/ FetchPair
    \/ Install
    \/ Save

FairSpec == Init /\ [][Lifecycle]_vars /\ WF_vars(Resume)

\* POST /catalog/scrape: the handler awaits catalog.full_scrape() at once,
\* whatever the scraper loop is doing.  On an idle catalog this is
\* StartFullScrape; during a run a second run starts on the same catalog,
\* and the model stops there (pc = "overlap") instead of following the two
\* interleaved runs.
CatalogScrape ==
    /\ pc # "boot"
    /\ IF Running
       THEN /\ pc' = "overlap"
            /\ obs' = NoObs
            /\ UNCHANGED <<memory, has_db, others, loop, database, op, locals, now, hist>>
       ELSE StartFullScrape

\* the lifecycle runs in progress on the catalog
RunsInProgress == IF pc = "overlap" THEN 2 ELSE IF Running THEN 1 ELSE 0

\* the callers of the lifecycle: _scraper_loop, which awaits each of its runs
\* before it starts the next, and the manual trigger
CallersSpec == Init /\ [][Lifecycle \/ CatalogScrape]_vars

----------------------------------------------------------------------------
(* _scraper_loop, the background task that calls the lifecycle *)

\* the settings, in units of the sleep of the loop (60 seconds)
scraper_full_interval_s == 3
scraper_price_interval_s == 2

\* how many iterations of while True a behaviour follows
MaxIterations == 2

\* what an iteration reads before it decides
Reading ==
    [now |-> now, last_full_scrape |-> last_full_scrape,
     last_price_refresh |-> last_price_refresh]

\* the code before while True: if not catalog.products, the initial full
\* scrape
ScraperInitial ==
    /\ loop.pc = "startup"
    /\ pc = "idle"
    /\ IF products = <<>>
       THEN /\ EnterFullScrape("full_scrape")
            /\ loop' = [loop EXCEPT !.pc = "awaiting_initial"]
       ELSE /\ loop' = [loop EXCEPT !.pc = "check"]
            /\ UNCHANGED <<memory, has_db, others, database, pc, op, locals,
                           now, hist, obs>>

\* an iteration that looks at the price refresh first
ScraperIterationRefreshFirst ==
    /\ loop.pc = "check"
    /\ pc = "idle"
    /\ loop.iteration < MaxIterations
    /\ IF now - last_price_refresh >= scraper_price_interval_s
       THEN /\ EnterRefreshPrices
            /\ loop' = [loop EXCEPT !.pc = "awaiting", !.iteration = @ + 1,
                                    !.read = Reading,
                                    !.started = <<"refresh_prices">>]
       ELSE IF now - last_full_scrape >= scraper_full_interval_s
       THEN /\ EnterFullScrape("full_scrape")
            /\ loop' = [loop EXCEPT !.pc = "awaiting", !.iteration = @ + 1,
                                    !.read = Reading,
                                    !.started = <<"full_scrape">>]
       ELSE /\ loop' = [loop EXCEPT !.pc = "sleep", !.iteration = @ + 1,
                                    !.read = Reading, !.started = <<>>]
            /\ UNCHANGED <<memory, has_db, others, database, pc, op, locals,
                           now, hist, obs>>

\* the body of while True up to its await, or to the sleep when nothing is
\* overdue
ScraperIteration ==
    /\ loop.pc = "check"
    /\ pc = "idle"
    /\ loop.iteration < MaxIterations
    /\ IF now - last_full_scrape >= scraper_full_interval_s
       THEN /\ EnterFullScrape("full_scrape")
            /\ loop' = [loop EXCEPT !.pc = "awaiting", !.iteration = @ + 1,
                                    !.read = Reading,
                                    !.started = <<"full_scrape">>]
       ELSE IF now - last_price_refresh >= scraper_price_interval_s
       THEN /\ EnterRefreshPrices
            /\ loop' = [loop EXCEPT !.pc = "awaiting", !.iteration = @ + 1,
                                    !.read = Reading,
                                    !.started = <<"refresh_prices">>]
       ELSE /\ loop' = [loop EXCEPT !.pc = "sleep", !.iteration = @ + 1,
                                    !.read = Reading, !.started = <<>>]
            /\ UNCHANGED <<memory, has_db, others, database, pc, op, locals,
                           now, hist, obs>>

\* the awaited run is over: it returned, or its exception was caught by
\* except Exception and logged
ScraperResume ==
    /\ loop.pc \in {"awaiting_initial", "awaiting"}
    /\ pc = "idle"
    /\ loop' = [loop EXCEPT
           !.pc = IF loop.pc = "awaiting_initial" THEN "check" ELSE "sleep",
           !.errors = IF hist.outcome = "raised" THEN @ + 1 ELSE @]
    /\ UNCHANGED <<memory, has_db, others, database, pc, op, locals, now, hist,
                   obs>>

\* await asyncio.sleep(60)
ScraperSleep ==
    /\ loop.pc = "sleep"
    /\ now' = now + 1
    /\ loop' = [loop EXCEPT !.pc = "check"]
    /\ UNCHANGED <<memory, has_db, others, database, pc, op, locals, hist, obs>>

ScraperLoop ==
    \/ LoadFromDb
    \/ ScraperInitial
    \/ ScraperIteration
    \/ ScraperResume
    \/ ScraperSleep
    \/ FetchPage
    \/ FetchPair
    \/ Install
    \/ Save

LoopSpec == Init /\ [][ScraperLoop]_vars

----------------------------------------------------------------------------
(* The chat sessions: the handlers of ONIMBOTMESSAGEADD, ONIMBOTJOINCHAT and
   ONIMBOTDELETE for one chat and its dialog, and _session_watchdog.  The
   webhook handlers run one after the other, the watchdog beside them; every
   await of a handler is a step.  Here the clock counts half seconds. *)

\* ticks of the clock in a second
TicksPerSecond == 2

\* MAX_HISTORY_MESSAGES, the messages ltrim keeps, and the age in seconds
\* after which the watchdog closes a transferred session
MAX_HISTORY_MESSAGES == 20
HistoryKept == 60
WatchdogAge == 120

\* how many messages the AI answers, how far the clock runs, and the steps
\* in which it moves (119.5, 120 and 120.5 seconds)
MaxExchanges == 2
MaxClock == 485
Delays == {239, 240, 241}

\* int(time.time())
WholeSeconds(t) == t \div TicksPerSecond

\* the last n items of a list: lrange(key, -n, -1), ltrim(key, -n, -1)
LastN(list, n) ==
    IF Len(list) <= n THEN list ELSE SubSeq(list, Len(list) - n + 1, Len(list))

\* Storage.get_chat_history: the Redis list, or the rows of PostgreSQL when
\* it is empty and there is a database (a failed read leaves the empty list)
GetChatHistory(read_ok) ==
    LET result == LastN(redis_chat, MAX_HISTORY_MESSAGES)
    IN  IF result = <<>> /\ has_db
        THEN IF read_ok THEN LastN(pg_chat, MAX_HISTORY_MESSAGES) ELSE <<>>
        ELSE result

\* all that a step of the chat sessions leaves alone but the clock
catalog == <<memory, has_db, database, pc, op, locals, hist, obs, html, loop>>

\* Storage.mark_session_* and set_session_info: state and ts of the hash
Mark(state) == [state |-> state, ts |-> WholeSeconds(now)]

\* ONIMBOTMESSAGEADD with a text: mark_session_active, then handle_message up
\* to its first await, or the reply that announces the transfer
ReceiveMessage ==
    /\ request.pc = "idle"
    /\ \E transfer \in BOOLEAN :
         /\ ~transfer => chat.exchanges < MaxExchanges
         /\ request' = [request EXCEPT
                !.pc = IF transfer THEN "transfer" ELSE "get_history"]
    /\ session' = Mark("bot_active")
    /\ UNCHANGED <<catalog, now, redis_chat, pg_chat, watchdog, chat>>

\* history = await self._get_history(dialog_id)
GetHistory ==
    /\ request.pc = "get_history"
    /\ \E read_ok \in BOOLEAN :
         chat' = [chat EXCEPT
             !.history = IF @ = <<>> /\ chat.prev # "no_join"
                         THEN <<GetChatHistory(read_ok)>> ELSE @]
    /\ request' = [request EXCEPT !.pc = "save_user"]
    /\ UNCHANGED <<catalog, now, session, redis_chat, pg_chat, watchdog>>

\* Storage.append_chat_message of the user's text and then of the reply:
\* rpush and ltrim, and the write-through, whose failure is logged
SaveMessage ==
    /\ request.pc \in {"save_user", "save_reply"}
    /\ LET message == 2 * chat.exchanges + (IF request.pc = "save_user" THEN 1 ELSE 2)
       IN  /\ redis_chat' = LastN(Append(redis_chat, message), HistoryKept)
           /\ \E write_ok \in BOOLEAN :
                pg_chat' = IF has_db /\ write_ok THEN Append(pg_chat, message)
                           ELSE pg_chat
    /\ IF request.pc = "save_user"
       THEN /\ request' = [request EXCEPT !.pc = "save_reply"]
            /\ chat' = chat
       ELSE /\ request' = NoRequest
            /\ chat' = [chat EXCEPT !.exchanges = @ + 1]
    /\ UNCHANGED <<catalog, now, session, watchdog>>

\* if transfer: mark_session_transferred
Transfer ==
    /\ request.pc = "transfer"
    /\ session' = Mark("transferred")
    /\ chat' = [chat EXCEPT !.marked = now]
    /\ request' = NoRequest
    /\ UNCHANGED <<catalog, now, redis_chat, pg_chat, watchdog>>

\* _handle_bot_join: prev_state = await storage.get_session_state(chat_id)
JoinRead ==
    /\ request.pc = "idle"
    /\ request' = [pc |-> "join_set", read |-> session.state]
    /\ chat' = [chat EXCEPT
           !.recorded = { redis_chat[i] : i \in 1 .. Len(redis_chat) }
                        \cup { pg_chat[i] : i \in 1 .. Len(pg_chat) },
           !.prev = session.state,
           !.history = <<>>]
    /\ UNCHANGED <<catalog, now, session, redis_chat, pg_chat, watchdog>>

\* _handle_bot_join: await storage.set_session_info(state="bot_active")
JoinSet ==
    /\ request.pc = "join_set"
    /\ session' = Mark("bot_active")
    /\ request' = [request EXCEPT !.pc = "join_clear"]
    /\ UNCHANGED <<catalog, now, redis_chat, pg_chat, watchdog, chat>>

\* _handle_bot_join: after transferred or closed, Storage.clear_chat_history,
\* which deletes the Redis list
JoinClear ==
    /\ request.pc = "join_clear"
    /\ redis_chat' = IF request.read \in {"transferred", "closed"} THEN <<>>
                     ELSE redis_chat
    /\ request' = NoRequest
    /\ UNCHANGED <<catalog, now, session, pg_chat, watchdog, chat>>

\* _handle_bot_delete: cur = await storage.get_session_state(chat_id)
DeleteRead ==
    /\ request.pc = "idle"
    /\ request' = [pc |-> "delete_mark", read |-> session.state]
    /\ UNCHANGED <<catalog, now, session, redis_chat, pg_chat, watchdog, chat>>

\* _handle_bot_delete: if cur != "transferred": mark_session_closed
DeleteMark ==
    /\ request.pc = "delete_mark"
    /\ IF request.read # "transferred"
       THEN /\ session' = Mark("closed")
            /\ chat' = [chat EXCEPT !.closing = "delete"]
       ELSE UNCHANGED <<session, chat>>
    /\ request' = NoRequest
    /\ UNCHANGED <<catalog, now, redis_chat, pg_chat, watchdog>>

\* a watchdog that closes every transferred session it finds
WatchdogScanAnyAge ==
    /\ watchdog.pc = "sleeping"
    /\ watchdog' = IF session.state = "transferred"
                   THEN [pc |-> "closing", seen |-> session]
                   ELSE [pc |-> "sleeping", seen |-> NoSession]
    /\ UNCHANGED <<catalog, now, session, redis_chat, pg_chat, request, chat>>

\* _session_watchdog: now = time.time(), get_all_tracked_sessions(), and
\* the test of the session read; it runs every 120 seconds, at times that
\* nothing ties to the events
WatchdogScan ==
    /\ watchdog.pc = "sleeping"
    /\ watchdog' =
           IF /\ session.state = "transferred"
              /\ session.ts > 0
              /\ now - TicksPerSecond * session.ts > TicksPerSecond * WatchdogAge
           THEN [pc |-> "closing", seen |-> session]
           ELSE [pc |-> "sleeping", seen |-> NoSession]
    /\ UNCHANGED <<catalog, now, session, redis_chat, pg_chat, request, chat>>

\* _session_watchdog: await storage.mark_session_closed(chat_id)
WatchdogClose ==
    /\ watchdog.pc = "closing"
    /\ session' = Mark("closed")
    /\ chat' = [chat EXCEPT !.closing = "watchdog"]
    /\ watchdog' = [pc |-> "sleeping", seen |-> NoSession]
    /\ UNCHANGED <<catalog, now, redis_chat, pg_chat, request>>

\* time passes
Tick ==
    /\ \E d \in Delays :
         /\ now + d <= MaxClock
         /\ now' = now + d
    /\ UNCHANGED <<catalog, sessions>>

SessionInit ==
    /\ products = <<>>
    /\ search_index = <<>>
    /\ last_full_scrape = 0
    /\ last_price_refresh = 0
    /\ has_db \in BOOLEAN
    /\ db_products = {}
    /\ db_meta = Connect({})
    /\ pc = "idle"
    /\ op = "none"
    /\ cat = 0
    /\ pairs = <<>>
    /\ all_products = <<>>
    /\ seen_uids = {}
    /\ by_uid = <<>>
    /\ now = TicksPerSecond
    /\ hist = [NoRun EXCEPT !.called = "load_from_db", !.outcome = "returned"]
    /\ obs = NoObs
    /\ html = <<>>
    /\ loop = NotStarted
    /\ NoChat

Events ==
    \/ ReceiveMessage
    \/ GetHistory
    \/ SaveMessage
    \/ Transfer
    \/ JoinRead
    \/ JoinSet
    \/ JoinClear
    \/ DeleteRead
    \/ DeleteMark
    \/ WatchdogScan
    \/ WatchdogClose
    \/ Tick

SessionSpec == SessionInit /\ [][Events]_vars

\* the clock moves on, and the watchdog task is resumed when its sleep and
\* its awaits are over
FairSessionSpec ==
    SessionInit /\ [][Events]_vars
        /\ WF_vars(Tick) /\ WF_vars(WatchdogScan) /\ WF_vars(WatchdogClose)

----------------------------------------------------------------------------
(* The Scorer on its own: search, get_by_category, get_available and
   build_catalog_summary on the
   catalogs a full scrape of upstream records with string fields leaves *)

\* the products _normalise_product makes of the str-only records
ScorerProducts ==
    { NormaliseProduct(raw, CATEGORY_SLUGS[c]) :
        raw \in {RawA, RawB, RawC, RawD, RawF}, c \in Slugs }

\* the lists of them a full scrape can install: no uid twice
ScorerCatalogs ==
    UNION { { l \in [1 .. n -> ScorerProducts] :
                \A i, j \in 1 .. n :
                    (i # j /\ Truthy(l[i].uid)) => l[i].uid # l[j].uid } :
            n \in 0 .. MaxCatalog }

\* the state full_scrape returns in, without a database
ScorerInit ==
    /\ products \in ScorerCatalogs
    /\ search_index = BuildSearchIndex(products)
    /\ last_full_scrape = 3
    /\ last_price_refresh = 3
    /\ has_db = FALSE
    /\ db_products = {}
    /\ db_meta = Connect({})
    /\ pc = "idle"
    /\ op = "none"
    /\ cat = NumCategories
    /\ pairs = <<>>
    /\ all_products = products
    /\ seen_uids = { u \in Uids(products) : Truthy(u) }
    /\ by_uid = <<>>
    /\ now = 4
    /\ hist = [NoRun EXCEPT !.called = "full_scrape", !.ran = "full",
                            !.outcome = "returned", !.visited = Slugs,
                            !.done_at = 3, !.save = "no_db",
                            !.result = Len(products)]
    /\ obs = NoObs
    /\ html = <<>>
    /\ loop = NotStarted
    /\ NoChat

\* the synchronous readers of the catalog
Readers == Search \/ GetByCategory \/ GetAvailable \/ BuildCatalogSummary

ScorerSpec == ScorerInit /\ [][Readers]_vars

----------------------------------------------------------------------------
(* Properties of the catalog lifecycle *)

\* the named method body has returned to its caller
Returned(body) == pc = "idle" /\ hist.ran = body /\ hist.outcome = "returned"

\* the positions of the catalog that hold the uid
Positions(u) == { i \in 1 .. Len(products) : products[i].uid = u }

\* q is p up to price, priceold and quantity
SameButPrices(p, q) ==
    [p EXCEPT !.price = q.price, !.priceold = q.priceold,
              !.quantity = q.quantity] = q

\* entry i of the index was built from product i, for every i
IndexAligned ==
    /\ Len(search_index) = Len(products)
    /\ \A i \in 1 .. Len(products) :
          Indexable(products[i]) /\ search_index[i] = IndexEntry(products[i])

\* C1: after full_scrape has returned, every uid of the raw input of the
\* run is the uid of exactly one product of the catalog, and that product is
\* the normalisation of the first raw record that carried the uid; the later
\* records with the uid were dropped.
C1_FirstOccurrenceWins ==
    Returned("full") =>
        \A u \in DOMAIN hist.first_seen :
            \E i \in 1 .. Len(products) :
                /\ Positions(u) = {i}
                /\ products[i] = hist.first_seen[u]

\* a full scrape has returned whose raw input repeated a uid
C1_Witness ==
    Returned("full") /\ hist.duplicate /\ hist.first_seen # <<>>

\* C2: a query that runs while full_scrape or refresh_prices is in progress
\* sees the catalog as it was before the run or as it is after the run,
\* never a state in between.  (hist.observed holds the list a query saw
\* during the run when it was not the list of before the run.)
C2_QueriesSeeBeforeOrAfter ==
    (pc = "idle" /\ hist.outcome = "returned" /\ hist.observed # <<>>) =>
        hist.observed[1] = products

\* C3: whenever search uses the index (the index is as long as the product
\* list), entry i of the index was built from product i, also between the
\* replacement of the list and the rebuild of the index in full_scrape.
C3_SearchUsesAlignedIndexOnly ==
    (obs = "search" /\ HasIndex) => IndexAligned

\* C4: when full_scrape or refresh_prices has returned, and when
\* load_from_db has returned True, the index has one entry per product and
\* entry i is built from product i.
C4_IndexAlignedOnCompletion ==
    (/\ pc = "idle"
     /\ hist.outcome = "returned"
     /\ hist.called = "load_from_db" => hist.loaded) => IndexAligned

\* a run has returned that had to build an index other than the one it found
C4_Witness ==
    /\ pc = "idle"
    /\ hist.outcome = "returned"
    /\ hist.ran \in {"full", "refresh"}
    /\ products # <<>>
    /\ search_index # hist.before_index

\* C5: no two products of the catalog have the same uid, at any time, raw
\* records without a uid or with an empty uid included.
C5_NoDuplicateUids ==
    \A i, j \in 1 .. Len(products) : products[i].uid = products[j].uid => i = j

\* C6: refresh_prices on a catalog that is not empty keeps every product
\* that was there, at its position and with every field but price, priceold
\* and quantity as it was; a raw record whose uid the catalog did not hold is
\* normalised and appended behind them.
C6_RefreshKeepsCatalog ==
    hist.ran = "refresh" =>
        /\ Len(products) >= Len(hist.before)
        /\ \A i \in 1 .. Len(hist.before) :
              SameButPrices(hist.before[i], products[i])
        /\ \A u \in DOMAIN hist.first_seen :
              \E i \in Len(hist.before) + 1 .. Len(products) :
                  SameButPrices(hist.first_seen[u], products[i])

\* a refresh has returned that changed a price and appended a product
C6_Witness ==
    /\ Returned("refresh")
    /\ Len(products) > Len(hist.before)
    /\ \E i \in 1 .. Len(hist.before) : products[i] # hist.before[i]

\* C7: a full scrape that has returned has set last_full_scrape and
\* last_price_refresh to its completion time; a refresh that has returned has
\* advanced last_price_refresh to its completion time and left
\* last_full_scrape as it was.  The row of scrape_meta carries the same
\* values once the save has succeeded, and is untouched otherwise.
C7_Timestamps ==
    (pc = "idle" /\ hist.outcome = "returned" /\ hist.ran # "none") =>
        /\ last_price_refresh = hist.done_at
        /\ hist.done_at > hist.before_price
        /\ last_full_scrape = IF hist.ran = "full" THEN hist.done_at
                              ELSE hist.before_full
        /\ GetScrapeMeta(db_meta) =
               IF hist.save = "ok"
               THEN [last_full_scrape   |->
                         IF hist.ran = "full" THEN hist.done_at
                         ELSE GetScrapeMeta(hist.before_meta).last_full_scrape,
                     last_price_refresh |-> hist.done_at]
               ELSE GetScrapeMeta(hist.before_meta)

\* a refresh has returned, and saved, on a catalog with an earlier full scrape
C7_Witness ==
    /\ Returned("refresh")
    /\ hist.save = "ok"
    /\ hist.before_full > 0
    /\ GetScrapeMeta(hist.before_meta).last_full_scrape > 0
    /\ last_price_refresh > last_full_scrape

\* C8: when the save to the database raises during full_scrape or
\* refresh_prices, the method still returns normally: the new list and the
\* new timestamps stay in memory, the index is rebuilt from the new list, and
\* the write is not attempted again.
C8_PersistenceFailureAbsorbed ==
    (pc = "idle" /\ hist.save \in {"products_raise", "meta_raise"}) =>
        /\ hist.outcome = "returned"
        /\ hist.ran = "full" => products = all_products
        /\ last_price_refresh = hist.done_at
        /\ IndexAligned
        /\ hist.writes = 1

\* C9: a category without a page, a page without pairs and a pair without
\* products do not end the run: a run that returns has gone through every
\* category and has fetched every pair it found, and the products the other
\* categories brought are in the catalog.
C9_SkipsDoNotAbort ==
    (pc = "idle" /\ hist.outcome = "returned" /\ hist.ran # "none") =>
        /\ hist.visited = Slugs
        /\ hist.unfetched = 0
        /\ \A u \in DOMAIN hist.first_seen : Positions(u) # {}

\* a full scrape has returned in which only the last category brought products
C9_Witness ==
    /\ Returned("full")
    /\ products # <<>>
    /\ \A i \in 1 .. Len(products) :
          products[i].category = CATEGORY_SLUGS[NumCategories]

\* C10: a 200 answer of the product-list endpoint whose body is not valid
\* JSON, is not a JSON object, or has no list under products makes the
\* Fetcher return an empty list: no exception of the Fetcher ends the run.
C10_MalformedBodyYieldsEmptyList ==
    ~(hist.outcome = "raised" /\ hist.raised_in = "fetch_products")

\* C11: every run of full_scrape and refresh_prices ends, whatever the
\* upstream answers, and no call of a fetcher sends more than Retries
\* requests: with one call per category page and one per discovered pair,
\* the requests of a run number at most Retries per page plus Retries per
\* pair.
C11_RunsTerminate ==
    /\ [](hist.extra_requests = 0)
    /\ [](pc \in {"fetch_page", "fetch_products"} => cat \in Slugs)
    /\ (Running ~> pc = "idle")

\* a run has returned in which a fetch used up all its attempts
C11_Witness ==
    pc = "idle" /\ hist.outcome = "returned" /\ hist.ran # "none" /\ hist.exhausted

\* C12: at no time are two lifecycle runs in progress on the same catalog:
\* the scraper loop and the manual /catalog/scrape trigger start a run only
\* after the run before it has ended.
C12_RunsSerialized == RunsInProgress <= 1

----------------------------------------------------------------------------
(* Properties of search *)

\* the positions of the products with a positive score
Positive(norm_terms) ==
    { i \in 1 .. Len(products) : Score(norm_terms, i) > 0 }

\* pos lists the positions of positive score by non-increasing score, and
\* positions of equal score in the order of the catalog
SortedStable(pos, norm_terms) ==
    /\ Len(pos) = Cardinality(Positive(norm_terms))
    /\ { pos[k] : k \in DOMAIN pos } = Positive(norm_terms)
    /\ \A a, b \in DOMAIN pos :
          a < b => \/ Score(norm_terms, pos[a]) > Score(norm_terms, pos[b])
                   \/ /\ Score(norm_terms, pos[a]) = Score(norm_terms, pos[b])
                      /\ pos[a] < pos[b]

\* search(q, limit=n) returns the first n products of its sorted results,
\* and these are sorted as SortedStable says
ReturnsFirstOfSorted(q, n) ==
    LET r   == SearchResult(q, n)
        pos == Ranked(NormTerms(q))
    IN  /\ ~r.raised
        /\ SortedStable(pos, NormTerms(q))
        /\ r.products = [k \in 1 .. Min(n, Len(pos)) |-> products[pos[k]]]

\* C13: for every catalog, query and limit n >= 0, search returns the first
\* n elements of the list of all products of positive score, ordered by
\* non-increasing score, products of equal score in catalog order.
C13_SearchOrder ==
    obs = "search" => \A q \in Queries, n \in Limits : ReturnsFirstOfSorted(q, n)

\* how many positions of the query stems match a title stem of the entry
TitleTerms(stem_terms, entry) ==
    Cardinality({ k \in DOMAIN stem_terms : StemMatch(stem_terms[k], entry.title) })

\* how many positions of the query stems match no title stem of the entry
\* and a stem of its other fields
OtherTerms(stem_terms, entry) ==
    Cardinality({ k \in DOMAIN stem_terms :
                    /\ ~StemMatch(stem_terms[k], entry.title)
                    /\ StemMatch(stem_terms[k], entry.other) })

\* C14: the score a product gets through an aligned index is the sum, over
\* the query stems (one summand per word of the query, a repeated word
\* counted each time), of 3 if the stem matches a title stem, else 1 if it
\* matches a stem of the other fields, else 0: a stem that matches both
\* gives 3, never 4.
C14_StemmedScore ==
    (obs = "search" /\ IndexAligned) =>
        \A q \in Queries, i \in 1 .. Len(products) :
            LET stems == StemTerms(NormTerms(q))
            IN  Stemmed(NormTerms(q), i) =
                    3 * TitleTerms(stems, search_index[i])
                        + OtherTerms(stems, search_index[i])

\* a search has run on a catalog with a product whose title and whose other
\* fields both match the stem of a word of a query, and one that scores twice
\* for a word given twice
C14_Witness ==
    /\ obs = "search"
    /\ IndexAligned
    /\ \E i \in 1 .. Len(products) :
          /\ StemMatch("ikra", search_index[i].title)
          /\ StemMatch("ikra", search_index[i].other)
          /\ Stemmed(NormTerms(<<"Ikra">>), i) = 3
    /\ \E i \in 1 .. Len(products) : Stemmed(NormTerms(<<"Kraby", "Kraby">>), i) = 6

\* stems to match: of fewer than 3, of 3 or 4 and of 5 or more characters,
\* equal, prefixes of one another, and with a common prefix one or two short
\* of the shorter stem
Stems ==
    { "kr", "s1", "krab", "krak", "kraby", "krabov", "losos", "losik",
      "grebeshok", "grebeshk" }

\* the lists of at most two of them
StemLists ==
    {<<>>} \cup { <<w>> : w \in Stems } \cup { <<w, v>> : w, v \in Stems }

\* the three ways in which two stems match
StemsMatch(q, w) ==
    LET a == Chars(q)
        b == Chars(w)
    IN  \/ q = w
        \/ /\ Len(a) >= 3 /\ Len(b) >= 3
           /\ StartsWith(a, b) \/ StartsWith(b, a)
        \/ /\ Len(a) >= 5 /\ Len(b) >= 5
           /\ Common(a, b) >= Min(Len(a), Len(b)) - 1

\* C15: _stem_match(q, words) is true exactly when some w of words is equal
\* to q, or both have 3 characters or more and one is a prefix of the other,
\* or both have 5 or more and their longest common prefix is at least the
\* length of the shorter minus 1; a stem of fewer than 3 characters matches
\* only its equal.
C15_StemMatch ==
    obs = "search" =>
        \A q \in Stems, words \in StemLists :
            /\ StemMatch(q, words) <=>
                   \E k \in 1 .. Len(words) : StemsMatch(q, words[k])
            /\ (Len(Chars(q)) < 3 \/ \A k \in 1 .. Len(words) : Len(Chars(words[k])) < 3)
                   => (StemMatch(q, words) <=>
                          \E k \in 1 .. Len(words) : words[k] = q)

\* a search has run on an index with the title stem krab: the stem matches
\* its longer form by prefix, not the two-letter kr; and grebeshk matches
\* grebeshok by the common prefix
C15_Witness ==
    /\ obs = "search"
    /\ \E i \in 1 .. Len(search_index) :
          /\ search_index[i].title = <<"krab">>
          /\ StemMatch("kraby", search_index[i].title)
          /\ ~StemMatch("kr", search_index[i].title)
    /\ StemMatch("grebeshk", <<"losos", "grebeshok">>)
    /\ ~StemMatch("losos", <<"losik">>)

\* search(q) scores product i in the substring pass exactly when its stemmed
\* score is 0, and returns the product whose sku is the word of the query
SubstringFallback(q) ==
    LET r  == SearchResult(q, Len(products))
        nt == NormTerms(q)
    IN  /\ ~r.raised
        /\ \A i \in 1 .. Len(products) :
              /\ Stemmed(nt, i) = 0 => Score(nt, i) = SubstringScore(nt, products[i])
              /\ Stemmed(nt, i) > 0 => Score(nt, i) = Stemmed(nt, i)
              /\ q = <<products[i].sku>> =>
                     \E k \in 1 .. Len(r.products) : r.products[k] = products[i]

\* C16: a product is scored by substrings (3 for a normalised word of the
\* query contained in the normalised title, else 1 for one contained in the
\* text of the other fields) exactly when its stemmed score is 0; so a query
\* that is the sku of a product returns that product, limit permitting, also
\* when no stem matches.
C16_SubstringFallback ==
    obs = "search" => \A q \in Queries : SubstringFallback(q)

\* C17: a word of the query written with punctuation attached (a trailing
\* comma, quotes around it) gives the same query stems as the word alone,
\* and so the same result list.
C17_PunctuationIgnored ==
    obs = "search" =>
        \A q \in {<<"Kraby,">>, <<"'Kraby'">>}, n \in Limits :
            SearchResult(q, n) = SearchResult(<<"Kraby">>, n)

\* C18: search never raises: for every query and every catalog that
\* load_from_db, full_scrape and refresh_prices can leave, whatever the
\* upstream records hold, it returns a list, the empty list when no product
\* matches.
C18_SearchNeverRaises ==
    obs = "search" =>
        \A q \in Queries, n \in Limits :
            LET r == SearchResult(q, n)
            IN  /\ ~r.raised
                /\ (Positive(NormTerms(q)) = {}) => r.products = <<>>

\* every scalar field of the product is a str
StrFields(p) ==
    \A f \in {"uid", "title", "sku", "price", "priceold", "quantity"} : p[f] # NULL

\* C19: every scalar field of a product the Normalizer makes is a string: a
\* missing key and a null value of the upstream become the empty string.
C19_NormalisedFieldsAreStrings ==
    /\ \A i \in 1 .. Len(all_products) : StrFields(all_products[i])
    /\ \A i \in 1 .. Len(products) : StrFields(products[i])

\* C20: for every list P of products with pairwise distinct uids, the empty
\* list included and whatever the table held, replace_all_products(P)
\* followed by load_all_products() returns a list that is P up to its order.
C20_ReplaceLoadRoundTrip ==
    (/\ pc = "idle"
     /\ hist.ran = "full"
     /\ hist.save = "ok"
     /\ \A i \in 1 .. Len(products) : StrFields(products[i])
     /\ \A i, j \in 1 .. Len(products) :
           products[i].uid = products[j].uid => i = j) =>
        \A l \in LoadAllProducts(db_products) :
            /\ Len(l) = Len(products)
            /\ { l[k] : k \in 1 .. Len(l) } =
               { products[i] : i \in 1 .. Len(products) }

\* the products of a list, as a set
Elements(l) == { l[k] : k \in 1 .. Len(l) }

\* C21: a product whose quantity is "0" is in no result of get_available,
\* whatever the limit; get_by_category of its category returns it and search
\* returns it for every query that gives it a positive score, when the limit
\* is the size of the catalog.
C21_OutOfStock ==
    \A i \in 1 .. Len(products) :
        OutOfStock(i) =>
            /\ obs = "get_available" =>
                  \A n \in Limits : products[i] \notin Elements(GetAvailableResult(n))
            /\ obs = "get_by_category" =>
                  products[i] \in Elements(GetByCategoryResult(products[i].category,
                                                               Len(products)))
            /\ obs = "search" =>
                  \A q \in Queries :
                      (~ScoreRaises(NormTerms(q), i) /\ Score(NormTerms(q), i) > 0) =>
                          LET r == SearchResult(q, Len(products))
                          IN  ~r.raised /\ products[i] \in Elements(r.products)

\* C22: search with a query of no words (empty, or whitespace only) returns
\* the empty list in every state of the catalog and scores no product: it
\* returns also where the scoring of a product would raise.
C22_BlankQuery ==
    obs = "search" =>
        \A n \in Limits : SearchResult(<<>>, n) = [raised |-> FALSE, products |-> <<>>]

\* a search has run on a catalog with a product that the substring pass
\* cannot score, the index being out of date
C22_Witness ==
    /\ obs = "search"
    /\ ~HasIndex
    /\ \E i \in 1 .. Len(products) : ~Indexable(products[i])

\* pairs of queries that differ in the case of their letters or in yo for ye
FoldedQueries ==
    { << <<"Kraby">>, <<"KRABY">> >>, << <<"Kraby">>, <<"kraby">> >>,
      << <<"Osyotr">>, <<"OSETR">> >>, << <<"osyotr">>, <<"osetr">> >>,
      << <<"s1", "Osyotr">>, <<"s1", "osetr">> >> }

\* C23: two queries that differ only in the case of letters or in yo
\* against ye get the same result list from search, in every catalog and for
\* every limit.
C23_CaseAndYoFolded ==
    obs = "search" =>
        \A qq \in FoldedQueries, n \in Limits :
            SearchResult(qq[1], n) = SearchResult(qq[2], n)

\* a search has run on a catalog in which a title written with yo is found
\* by the query written with ye, and a title by the query in capitals
C23_Witness ==
    /\ obs = "search"
    /\ \E i \in 1 .. Len(products) :
          /\ products[i].title = "Osyotr"
          /\ products[i] \in Elements(SearchResult(<<"OSETR">>, 10).products)
    /\ SearchResult(<<"KRABY">>, 10).products # <<>>

\* C24: search, get_by_category, get_available and build_catalog_summary
\* leave the product list (length, order, every field of every product), the
\* search index and both timestamps as they are.
C24_ReadersChangeNothing ==
    [][Readers =>
          UNCHANGED <<products, search_index, last_full_scrape, last_price_refresh>>]_vars

\* build_catalog_summary has run on a catalog of two different products, one
\* of them out of stock
C24_Witness ==
    /\ obs = "build_catalog_summary"
    /\ Len(products) >= 2
    /\ products[1] # products[2]
    /\ BuildCatalogSummaryResult.in_stock < BuildCatalogSummaryResult.total

----------------------------------------------------------------------------
(* Properties of Discovery and of the Fetcher *)

\* the attempts of a fetch that got the answer
Answered(script, answers) == { k \in 1 .. Retries : script[k] \in answers }

\* the first attempt of a set of attempts
First(attempts) == CHOOSE k \in attempts : \A j \in attempts : k <= j

\* C25: _fetch_category_page sends at most Retries requests; after a 403 and
\* after a timeout or network error on attempt k it sleeps Backoff * k, more
\* after every later attempt; it returns the text of the page at the first
\* 200 and None when no attempt got a 200, and does not raise.
C25_PageFetchRetries ==
    hist.visited # {} =>
        /\ hist.raised_in # "fetch_page"
        /\ \A script \in HttpScripts, page \in Pages :
              LET r == FetchCategoryPage(script, page)
              IN  /\ Requests(script) <= Retries
                  /\ \A k \in 1 .. Requests(script) :
                        script[k] \in {"403", "timeout"} =>
                            WaitAfter(script, k) = Backoff * k
                  /\ \A j, k \in 1 .. Requests(script) :
                        (j < k /\ WaitAfter(script, j) > 0 /\ WaitAfter(script, k) > 0)
                            => WaitAfter(script, j) < WaitAfter(script, k)
                  /\ IF Answered(script, {"200"}) # {}
                     THEN /\ r = [html |-> TRUE, page |-> page]
                          /\ Requests(script) = First(Answered(script, {"200"}))
                     ELSE /\ ~r.html
                          /\ Requests(script) = Retries

\* the page of the first category got no 200 in all its attempts, and the
\* full scrape has gone on to the second category
C25_Witness ==
    /\ op = "full"
    /\ pc = "fetch_page"
    /\ cat = 2
    /\ hist.visited = {1}
    /\ hist.exhausted

\* C26: an answer whose status is neither 200 nor 403 ends the fetch of the
\* category page, and of the pair, at once: no request follows it, and the
\* result is None, respectively the empty list.
C26_OtherStatusGivesUp ==
    hist.visited # {} =>
        \A script \in HttpScripts, page \in Pages, body \in Bodies :
            LET other == Answered(script, {"500"})
                ok    == Answered(script, {"200"})
            IN  (other # {} /\ \A k \in ok : First(other) < k) =>
                    /\ Requests(script) = First(other)
                    /\ ~FetchCategoryPage(script, page).html
                    /\ FetchProducts(script, body) = [raised |-> FALSE, products |-> <<>>]

----------------------------------------------------------------------------
(* Further properties of the catalog lifecycle *)

\* the rows replace_all_products writes for the catalog
CatalogRows == { ProductDictToRow(products[i]) : i \in 1 .. Len(products) }

\* C27: refresh_prices called on an empty product list is a full scrape: the
\* list is built aside and installed as full_scrape installs it (for every
\* uid the first record of the run, once), both timestamps are set to the
\* completion time, the catalog is saved by replace_all_products and not by
\* upsert_products, and the number returned is the size of the catalog.
C27_RefreshOfEmptyIsFullScrape ==
    (hist.called = "refresh_prices" /\ hist.before = <<>>) =>
        /\ hist.ran = "full"
        /\ Running => op = "full"
        /\ pc \in {"fetch_page", "fetch_products", "install"} => products = <<>>
        /\ (pc = "idle" /\ hist.outcome = "returned") =>
              /\ products = all_products
              /\ \A u \in DOMAIN hist.first_seen :
                    \E i \in 1 .. Len(products) :
                        Positions(u) = {i} /\ products[i] = hist.first_seen[u]
              /\ last_full_scrape = hist.done_at
              /\ last_price_refresh = hist.done_at
              /\ hist.result = Len(products)
              /\ hist.save = "ok" =>
                    /\ products # <<>> => db_products = CatalogRows
                    /\ GetScrapeMeta(db_meta) =
                           [last_full_scrape   |-> hist.done_at,
                            last_price_refresh |-> hist.done_at]

\* load_from_db failed on a database that holds a catalog; refresh_prices,
\* called on the empty list, has returned with products of one uid and has
\* saved them: the rows of the earlier catalog are gone
C27_Witness ==
    /\ hist.called = "refresh_prices"
    /\ hist.before = <<>>
    /\ Returned("full")
    /\ hist.save = "ok"
    /\ GetScrapeMeta(hist.before_meta).last_full_scrape > 0
    /\ products # <<>>
    /\ \A r \in db_products : r.uid = "u2"

\* C28: load_from_db on the empty catalog returns True exactly when it
\* leaves a product list that is not empty and an index rebuilt from it; when
\* it returns False (no database, an empty store, an exception of
\* load_all_products or of get_scrape_meta) the product list is still empty
\* and the timestamps are as they were.
C28_LoadFromDbResult ==
    (pc = "idle" /\ hist.called = "load_from_db") =>
        /\ hist.loaded <=> (products # <<>> /\ IndexAligned)
        /\ ~hist.loaded =>
              /\ products = <<>>
              /\ last_full_scrape = 0
              /\ last_price_refresh = 0

----------------------------------------------------------------------------
(* Properties of the Normalizer *)

\* the products of the catalog and of the list a full scrape is building
Normalised == Elements(products) \cup Elements(all_products)

\* C29: normalisation is deterministic and idempotent: the product a full
\* scrape made of the first record of a uid is the product the history made
\* of the same record and category, and the normalisation of a product of
\* the catalog with its own category does not raise and gives that product.
C29_NormaliseIdempotent ==
    /\ hist.ran = "full" =>
          \A u \in DOMAIN hist.first_seen : hist.first_seen[u] \in Elements(all_products)
    /\ \A p \in Normalised :
          /\ ~NormaliseRaises(p)
          /\ NormaliseProduct(p, p.category) = p

\* a full scrape has returned with a product that has two editions and a
\* characteristic, made of a record without a sku
C29_Witness ==
    /\ Returned("full")
    /\ \E i \in 1 .. Len(products) :
          /\ Len(products[i].editions.items) = 2
          /\ Len(products[i].characteristics.items) = 1
          /\ products[i].sku = ""

\* the raw records of the model
RawRecords == {RawA, RawB, RawC, RawD, RawE, RawF, RawG}

EditionKeys == {"uid", "price", "priceold", "sku", "text", "quantity"}
CharacteristicKeys == {"title", "value"}

\* out holds the dicts of items, in their order, each reduced to keys
KeepsDicts(out, items, keys) ==
    \E f \in [1 .. Len(out) -> 1 .. Len(items)] :
        /\ \A j, k \in 1 .. Len(out) : j < k => f[j] < f[k]
        /\ { f[k] : k \in 1 .. Len(out) } = { j \in 1 .. Len(items) : IsDict(items[j]) }
        /\ \A k \in 1 .. Len(out) :
              /\ DOMAIN out[k] = keys \cup {"kind"}
              /\ IsDict(out[k])
              /\ \A key \in keys : out[k][key] = GetKey(items[f[k]], key, "")

\* C30: for every raw record, also one whose editions or characteristics
\* are absent, null or not a list, the Normalizer returns a product whose
\* editions and characteristics are the dicts of the raw lists, in their
\* order, each reduced to the canonical keys; other items are dropped and
\* nothing is raised.
C30_NestedListsFiltered ==
    /\ ~(hist.outcome = "raised" /\ hist.raised_in = "normalise_product")
    /\ hist.ran # "none" =>
          \A raw \in RawRecords :
              LET p == NormaliseProduct(raw, CATEGORY_SLUGS[1])
              IN  /\ ~NormaliseRaises(raw)
                  /\ p.editions.kind = "list"
                  /\ p.characteristics.kind = "list"
                  /\ KeepsDicts(p.editions.items,
                                GetKey(raw, "editions", ListValue(<<>>)).items,
                                EditionKeys)
                  /\ KeepsDicts(p.characteristics.items,
                                GetKey(raw, "characteristics", ListValue(<<>>)).items,
                                CharacteristicKeys)

----------------------------------------------------------------------------
(* Further properties of search and of the listings *)

\* C40: stem matching is symmetric: for all stems a and b, _stem_match(a,
\* [b]) is _stem_match(b, [a]).
C40_StemMatchSymmetric ==
    obs = "search" =>
        \A a, b \in Stems : StemMatch(a, <<b>>) <=> StemMatch(b, <<a>>)

\* a search has run on an index with the title stem krab: the longer stem
\* krabov matches it and is matched by it, the short stem kr does neither
C40_Witness ==
    /\ obs = "search"
    /\ \E i \in 1 .. Len(search_index) :
          /\ search_index[i].title = <<"krab">>
          /\ StemMatch("krabov", search_index[i].title)
          /\ StemMatch("krab", <<"krabov">>)
          /\ ~StemMatch("kr", search_index[i].title)
          /\ ~StemMatch("krab", <<"kr">>)

\* the products of the catalog that are in stock, and those of a category,
\* in the order of the catalog
InStock == SelectSeq(products, LAMBDA p : p.quantity # "0")
OfCategory(c) == SelectSeq(products, LAMBDA p : p.category = c)

\* C39: for every limit n >= 0, get_available(n) returns the first n
\* products of the catalog whose quantity is not "0", and get_by_category(c,
\* n) the first n products of category c, in catalog order; neither returns
\* more than n products.
C39_ListingsWithinLimit ==
    \A n \in Limits :
        /\ obs = "get_available" =>
              /\ GetAvailableResult(n) = Take(InStock, n)
              /\ Len(GetAvailableResult(n)) <= n
        /\ obs = "get_by_category" =>
              \A k \in Slugs :
                  /\ GetByCategoryResult(CATEGORY_SLUGS[k], n) =
                         Take(OfCategory(CATEGORY_SLUGS[k]), n)
                  /\ Len(GetByCategoryResult(CATEGORY_SLUGS[k], n)) <= n

\* C33: after a full scrape that has returned and saved without an error,
\* load_all_products() returns exactly the products held in memory, also
\* when no category brought a product and the list in memory is empty.
C33_PersistedMirror ==
    (Returned("full") /\ hist.save = "ok") =>
        \A l \in LoadAllProducts(db_products) : Elements(l) = Elements(products)

\* C36: when full_scrape ends with an exception raised while fetching or
\* normalising, the product list, the index, both timestamps and the
\* database are as they were before the call: no step of a full scrape
\* before the end of its loop changes them, and none has written.
C36_FailedScrapeChangesNothing ==
    /\ []((hist.ran = "full" /\ hist.outcome = "raised"
              /\ hist.raised_in \in {"fetch_products", "normalise_product"}) =>
            /\ products = hist.before
            /\ search_index = hist.before_index
            /\ last_full_scrape = hist.before_full
            /\ last_price_refresh = hist.before_price
            /\ db_meta = hist.before_meta
            /\ hist.writes = 0)
    /\ [][(op = "full" /\ pc \in {"fetch_page", "fetch_products"}) =>
             UNCHANGED <<products, search_index, last_full_scrape,
                         last_price_refresh, db_products, db_meta>>]_vars

\* a full scrape of a catalog loaded from the database has built a list of
\* its own and then ended with an exception of the Normalizer
C36_Witness ==
    /\ hist.ran = "full"
    /\ hist.outcome = "raised"
    /\ hist.raised_in = "normalise_product"
    /\ hist.before # <<>>
    /\ all_products # <<>>
    /\ all_products # products

----------------------------------------------------------------------------
(* The table scrape_meta *)

\* C32: once Database.connect() has returned, scrape_meta holds exactly one
\* row, with id = 1, in every state: get_scrape_meta and set_scrape_meta
\* neither add a row nor delete it.
C32_SingleMetaRow ==
    has_db => /\ Cardinality(db_meta) = 1
              /\ \A r \in db_meta : r.id = 1

\* on a database that was empty when the process connected, load_from_db
\* has read the seeded row and a full scrape has written both its columns
C32_Witness ==
    /\ has_db
    /\ hist.before_meta = {ScrapeMetaRow(0, 0)}
    /\ Returned("full")
    /\ hist.save = "ok"
    /\ db_meta = {ScrapeMetaRow(hist.done_at, hist.done_at)}

----------------------------------------------------------------------------
(* The extractor on its own: _extract_store_ids on the pages of one line of
   up to MaxTokens identifiers and on the pages of up to MaxLines lines of
   at most one identifier *)

Tokens ==
    { Recid("10001"), Recid("10002"), Storepart("70001"),
      Storepart("70000002"), Storepart("ab12cd34"), StorepartUid("ab12cd34") }

Lines(n) == UNION { [1 .. k -> Tokens] : k \in 0 .. n }

Htmls ==
    { <<line>> : line \in Lines(MaxTokens) }
    \cup UNION { [1 .. k -> Lines(1)] : k \in 0 .. MaxLines }

ExtractInit ==
    /\ html \in Htmls
    /\ pc = "extract"
    /\ pairs = <<>>
    /\ products = <<>>
    /\ search_index = <<>>
    /\ last_full_scrape = 0
    /\ last_price_refresh = 0
    /\ has_db = FALSE
    /\ db_products = {}
    /\ db_meta = Connect({})
    /\ op = "none"
    /\ cat = 0
    /\ all_products = <<>>
    /\ seen_uids = {}
    /\ by_uid = <<>>
    /\ now = 3
    /\ hist = NoRun
    /\ obs = NoObs
    /\ loop = NotStarted
    /\ NoChat

\* pairs = _extract_store_ids(html)
Extract ==
    /\ pc = "extract"
    /\ pairs' = ExtractStoreIds(html)
    /\ pc' = "extracted"
    /\ UNCHANGED <<memory, has_db, database, op, cat, all_products, seen_uids,
                   by_uid, now, hist, obs, html, loop, sessions>>

ExtractSpec == ExtractInit /\ [][Extract]_vars

\* the members of a sequence
Range(s) == { s[i] : i \in 1 .. Len(s) }

\* C31: _extract_store_ids returns (partition-id, record-id) pairs without
\* duplicates; the pairs that the record-then-partition pattern finds come
\* first, those that only the partition-then-record pattern finds after
\* them; the positional pairing is used only when the two patterns find no
\* pair; a page without identifiers yields the empty list.
C31_ExtractStoreIds ==
    pc = "extracted" =>
        LET first  == Range(RecordFirst(html))
            second == Range(PartitionFirst(html))
            zipped == Range(Zip(Storeparts(html), Recids(html)))
        IN  /\ \A i, j \in 1 .. Len(pairs) : pairs[i] = pairs[j] => i = j
            /\ \A i \in 1 .. Len(pairs) : Len(pairs[i]) = 2
            /\ first \cup second # {} =>
                  /\ Range(pairs) = first \cup second
                  /\ \A i, j \in 1 .. Len(pairs) :
                        (pairs[i] \in first /\ pairs[j] \notin first) => i < j
            /\ first \cup second = {} => Range(pairs) = zipped
            /\ Flat(html) = <<>> => pairs = <<>>

\* the extractor has returned the two pairs of a line in which the
\* partition-then-record pattern matches to the left of the
\* record-then-partition pattern: the pair of the latter comes first
C31_Witness ==
    /\ pc = "extracted"
    /\ html = << <<Storepart("70000002"), Recid("10001"), Storepart("70001")>> >>
    /\ Len(pairs) = 2
    /\ pairs[1] = <<"70001", "10001">>
    /\ pairs[2] = <<"70000002", "10001">>

----------------------------------------------------------------------------
(* Properties of the scraper loop *)

\* what an iteration that read r has to start
Due(r) ==
    IF r.now - r.last_full_scrape >= scraper_full_interval_s
    THEN <<"full_scrape">>
    ELSE IF r.now - r.last_price_refresh >= scraper_price_interval_s
    THEN <<"refresh_prices">>
    ELSE <<>>

\* C35: an iteration of the scraper loop starts at most one run: a full
\* scrape when last_full_scrape is overdue, otherwise a price refresh when
\* last_price_refresh is overdue, otherwise nothing, and never a refresh
\* after the full scrape of the same iteration; the run the loop awaits is
\* the one it started; after a run that raised, the loop is at its sleep or
\* at the check that follows it.
C35_OneRunPerIteration ==
    loop.iteration > 0 =>
        /\ Len(loop.started) <= 1
        /\ loop.started = Due(loop.read)
        /\ loop.pc = "awaiting" => hist.called = loop.started[1]
        /\ loop.pc \in {"awaiting", "sleep", "check"}
        /\ (loop.pc # "awaiting" /\ loop.started # <<>>) =>
              /\ hist.called = loop.started[1]
              /\ hist.outcome \in {"returned", "raised"}

\* a full scrape started by the loop raised; the loop slept and, in a
\* later iteration, has started a run again
C35_Witness ==
    /\ loop.errors > 0
    /\ loop.iteration >= 2
    /\ loop.pc = "awaiting"
    /\ loop.started = <<"full_scrape">>
    /\ loop.read.now - loop.read.last_price_refresh >= scraper_price_interval_s

\* C37: with a clock that never goes back, last_full_scrape <=
\* last_price_refresh in every state, in memory and in the row of
\* scrape_meta, whatever load_from_db, the full scrapes and the refreshes
\* of the loop do and whichever of their database calls fail.
C37_FullNotAfterPrice ==
    /\ last_full_scrape <= last_price_refresh
    /\ GetScrapeMeta(db_meta).last_full_scrape
           <= GetScrapeMeta(db_meta).last_price_refresh

\* the loop has run a full scrape and then a refresh whose write of the
\* timestamps failed: the row is behind the memory, and in both the full
\* scrape is the earlier of the two
C37_Witness ==
    /\ loop.iteration >= 2
    /\ Returned("refresh")
    /\ hist.save = "meta_raise"
    /\ 0 < last_full_scrape
    /\ last_full_scrape < last_price_refresh
    /\ GetScrapeMeta(db_meta).last_full_scrape = last_full_scrape
    /\ GetScrapeMeta(db_meta).last_price_refresh < last_price_refresh

----------------------------------------------------------------------------
(* Properties of the chat sessions *)

\* C34: ONIMBOTJOINCHAT for a chat whose session is transferred or closed
\* makes the session bot_active, and the next get_chat_history returns no
\* message recorded before the join; when the session was bot_active or
\* absent, the join keeps the history.
C34_RejoinStartsFresh ==
    /\ []((chat.prev \in {"transferred", "closed"} /\ chat.history # <<>>) =>
            \A i \in 1 .. Len(chat.history[1]) :
                chat.history[1][i] \notin chat.recorded)
    /\ [][(request.pc = "join_set" /\ request'.pc = "join_clear") =>
             session'.state = "bot_active"]_vars
    /\ [][(request.pc = "join_clear" /\ request'.pc = "idle"
              /\ request.read \in {"bot_active", "none"}) =>
             UNCHANGED <<redis_chat, pg_chat>>]_vars

\* the age in ticks of the mark of the session as transferred
Idle == now - chat.marked

\* the watchdog closes the session it read, if that is still as it read it
WatchdogCloses ==
    watchdog.pc = "closing" /\ watchdog'.pc = "sleeping" /\ watchdog.seen = session

\* ONIMBOTDELETE closes the session unless it read transferred, which it
\* leaves alone
DeleteCloses ==
    (request.pc = "delete_mark" /\ request'.pc = "idle") =>
        IF request.read = "transferred" THEN session' = session
        ELSE session'.state = "closed"

\* the session is transferred, and was marked early enough for the clock of
\* the model to pass its age
Transferred == session.state = "transferred"
TransferredInTime ==
    /\ Transferred
    /\ TicksPerSecond * (session.ts + 2 * WatchdogAge) <= MaxClock

\* such a session does not stay transferred
EventuallyClosed == TransferredInTime ~> ~Transferred

====
